---- MODULE Spec2Model ----
(***************************************************************************)
(* Academic-Scheduler-Offline: the routine screen (app/(tabs)/routine.tsx),*)
(* the lecture context (context/ScheduleContext.tsx), the key-value        *)
(* lecture store and the import parsers, as state machines over the        *)
(* notification service and the stores.                                    *)
(*                                                                         *)
(* Strings the code takes apart (times, cells, headers) are sequences of   *)
(* one-character strings; strings the code only compares or looks up       *)
(* (canonical day names, subjects) are TLA+ strings.                       *)
(***************************************************************************)
EXTENDS Integers, Sequences, FiniteSets, TLC

VARIABLES
    trigIn,             \* getWeeklyTrigger: the arguments of the last call
    trigOut,            \* getWeeklyTrigger: its result
    perm,               \* the notification permission of the device
    notifs,             \* the notification service: identifier -> trigger
    nextNid,            \* the next identifier the service hands out
    reminderLeadTime,   \* ScheduleProvider state
    items,              \* RoutineScreen state: the routine list as rendered
    routineStore,       \* AsyncStorage, ROUTINE_KEY
    nextItemId,         \* the next routine item id (Date.now() based)
    lectures,           \* ScheduleProvider state: the lectures as rendered
    lectureDb,          \* the lecture store, LECTURES_KEY
    lectureCounter,     \* the lecture store, COUNTER_KEY
    ops,                \* the handlers in flight, one per slot
    lastDone,           \* what the handler that returned last leaves behind
    started,            \* the number of handlers started so far
    callIn,             \* a function of the importers: the call made
    callOut             \* that call's outcome

trigVars == <<trigIn, trigOut, callIn, callOut>>

serviceVars == <<perm, notifs, nextNid>>

routineVars == <<items, routineStore, nextItemId>>

opVars == <<ops, lastDone>>

lectureVars == <<lectures, lectureDb, lectureCounter>>

appVars == <<perm, notifs, nextNid, reminderLeadTime, items, routineStore, nextItemId,
             lectures, lectureDb, lectureCounter, ops, lastDone, started>>

vars == <<trigIn, trigOut, perm, notifs, nextNid, reminderLeadTime, items, routineStore,
          nextItemId, lectures, lectureDb, lectureCounter, ops, lastDone, started,
          callIn, callOut>>

----------------------------------------------------------------------------
(* JavaScript arithmetic *)

\* a % b in JavaScript for b > 0: the sign follows the dividend
JsMod(a, b) == IF a >= 0 THEN a % b ELSE 0 - ((0 - a) % b)

\* Math.floor(a / b) for b > 0
JsFloorDiv(a, b) == a \div b

Null == [null |-> TRUE]

NaN == [nan |-> TRUE]

----------------------------------------------------------------------------
(* Characters and strings *)

Digits == <<"0", "1", "2", "3", "4", "5", "6", "7", "8", "9">>

IsDigit(c) == \E i \in 1..10 : Digits[i] = c

DigitVal(c) == (CHOOSE i \in 1..10 : Digits[i] = c) - 1

AllDigits(s) == \A i \in 1..Len(s) : IsDigit(s[i])

\* parseInt(s, 10) / Number(s) of a non-empty all-digit string
RECURSIVE DecVal(_)
DecVal(s) ==
    IF Len(s) = 0 THEN 0
    ELSE 10 * DecVal(SubSeq(s, 1, Len(s) - 1)) + DigitVal(s[Len(s)])

\* String(n).padStart(2, '0') for 0 <= n
RECURSIVE DecStr(_)
DecStr(n) == IF n < 10 THEN <<Digits[n + 1]>> ELSE DecStr(n \div 10) \o <<Digits[(n % 10) + 1]>>

Pad2(n) == IF n < 10 THEN <<"0">> \o DecStr(n) ELSE DecStr(n)

\* the HH:MM string of hour h and minute m
HHMM(h, m) == Pad2(h) \o <<":">> \o Pad2(m)

\* s.split(':'): the pieces between colons
RECURSIVE SplitColon(_)
SplitColon(s) ==
    IF \A i \in 1..Len(s) : s[i] # ":" THEN <<s>>
    ELSE LET k == CHOOSE i \in 1..Len(s) : s[i] = ":" /\ \A j \in 1..(i - 1) : s[j] # ":"
         IN  <<SubSeq(s, 1, k - 1)>> \o SplitColon(SubSeq(s, k + 1, Len(s)))

\* Number(piece) is a number: digits, or the empty string (which gives 0)
IsNumeric(s) == AllDigits(s)

NumberOf(s) == IF Len(s) = 0 THEN 0 ELSE DecVal(s)

----------------------------------------------------------------------------
(* Time and day utilities, routine.tsx *)

\* timeToMinutes(t) is a number and not NaN: split(':') gives at least two
\* pieces and the first two are numeric
TimeIsNumber(t) ==
    LET parts == SplitColon(t)
    IN  Len(parts) >= 2 /\ IsNumeric(parts[1]) /\ IsNumeric(parts[2])

\* a conversion that drops the minutes
timeToMinutesOfHour(t) ==
    LET parts == SplitColon(t)
    IN  IF TimeIsNumber(t) THEN NumberOf(parts[1]) * 60 ELSE NaN

\* const [h, m] = t.split(':').map(Number); return h * 60 + m
timeToMinutes(t) ==
    LET parts == SplitColon(t)
    IN  IF TimeIsNumber(t) THEN NumberOf(parts[1]) * 60 + NumberOf(parts[2]) ELSE NaN

\* /^(\d{2}):(\d{2})$/ with hour 0..23 and minute 0..59
validTime(t) ==
    /\ Len(t) = 5
    /\ IsDigit(t[1]) /\ IsDigit(t[2]) /\ t[3] = ":" /\ IsDigit(t[4]) /\ IsDigit(t[5])
    /\ DecVal(SubSeq(t, 1, 2)) <= 23
    /\ DecVal(SubSeq(t, 4, 5)) <= 59

\* ((totalMinutes % 1440) + 1440) % 1440, then zero-padded hour and minute
toHHMM(totalMinutes) ==
    LET mins == JsMod(JsMod(totalMinutes, 1440) + 1440, 1440)
    IN  HHMM(JsFloorDiv(mins, 60), JsMod(mins, 60))

CanonicalDays == {"Sunday", "Monday", "Tuesday", "Wednesday", "Thursday", "Friday", "Saturday"}

getDayNumber(day) ==
    CASE day = "Sunday" -> 0
      [] day = "Monday" -> 1
      [] day = "Tuesday" -> 2
      [] day = "Wednesday" -> 3
      [] day = "Thursday" -> 4
      [] day = "Friday" -> 5
      [] day = "Saturday" -> 6
      [] OTHER -> 0 - 1

\* the loop with the weekday left where it was
RECURSIVE WrapBackSameDay(_, _)
WrapBackSameDay(mins, triggerDay) ==
    IF mins < 0 THEN WrapBackSameDay(mins + 24 * 60, triggerDay)
    ELSE [mins |-> mins, triggerDay |-> triggerDay]

\* while (mins < 0) { mins += 24 * 60; triggerDay = (triggerDay + 6) % 7; }
RECURSIVE WrapBack(_, _)
WrapBack(mins, triggerDay) ==
    IF mins < 0 THEN WrapBack(mins + 24 * 60, JsMod(triggerDay + 6, 7))
    ELSE [mins |-> mins, triggerDay |-> triggerDay]

getWeeklyTrigger(day, time, offsetMins) ==
    LET dayNum == getDayNumber(day)
        w == WrapBack(timeToMinutes(time) - offsetMins, dayNum)
    IN  IF dayNum < 0 THEN Null
        ELSE [weekday |-> IF w.triggerDay = 0 THEN 1 ELSE w.triggerDay + 1,
              hour |-> JsFloorDiv(w.mins, 60),
              minute |-> JsMod(w.mins, 60),
              repeats |-> TRUE]

----------------------------------------------------------------------------
(* Cells of an imported row (JSON value or sheet cell) and their strings   *)

\* a row is a sequence of <<header, cell>> pairs (Object.entries order); a
\* cell is null, a string, a boolean, or a finite number in units of
\* 1 / NumScale
NumScale == 100000

NullCell == [t |-> "null"]

StrCell(s) == [t |-> "str", s |-> s]

NumCell(n) == [t |-> "num", n |-> n]

BoolCell(b) == [t |-> "bool", b |-> b]

\* Infinity and -Infinity
InfCell(neg) == [t |-> "inf", neg |-> neg]

NaNCell == [t |-> "nan"]

\* a Date read from a date-formatted cell, by its local hours and minutes
DateCell(h, m) == [t |-> "date", valid |-> TRUE, h |-> h, m |-> m]

\* a Date whose getTime() is NaN
InvalidDate == [t |-> "date", valid |-> FALSE]

UpperLetters == <<"A", "B", "C", "D", "E", "F", "G", "H", "I", "J", "K", "L", "M",
                  "N", "O", "P", "Q", "R", "S", "T", "U", "V", "W", "X", "Y", "Z">>

LowerLetters == <<"a", "b", "c", "d", "e", "f", "g", "h", "i", "j", "k", "l", "m",
                  "n", "o", "p", "q", "r", "s", "t", "u", "v", "w", "x", "y", "z">>

LowerChar(c) ==
    IF \E i \in 1..26 : UpperLetters[i] = c
    THEN LowerLetters[CHOOSE i \in 1..26 : UpperLetters[i] = c]
    ELSE c

\* s.toLowerCase()
ToLower(s) == [i \in 1..Len(s) |-> LowerChar(s[i])]

IsSpace(c) == c \in {" ", "\t", "\n", "\r"}

\* s.trim()
RECURSIVE Trim(_)
Trim(s) ==
    IF Len(s) = 0 THEN s
    ELSE IF IsSpace(s[1]) THEN Trim(Tail(s))
    ELSE IF IsSpace(s[Len(s)]) THEN Trim(SubSeq(s, 1, Len(s) - 1))
    ELSE s

\* s.replace(/[\s_\-]/g, '')
RECURSIVE StripSeparators(_)
StripSeparators(s) ==
    IF Len(s) = 0 THEN s
    ELSE IF IsSpace(s[1]) \/ s[1] \in {"_", "-"} THEN StripSeparators(Tail(s))
    ELSE <<s[1]>> \o StripSeparators(Tail(s))

\* the digits of a fraction f / scale without trailing zeros
RECURSIVE FracDigits(_, _)
FracDigits(f, scale) ==
    IF f = 0 THEN <<>>
    ELSE <<Digits[((f * 10) \div scale) + 1]>> \o FracDigits((f * 10) % scale, scale)

\* String(n) of a finite number
NumString(n) ==
    LET a == IF n < 0 THEN 0 - n ELSE n
        whole == DecStr(a \div NumScale)
        frac == FracDigits(a % NumScale, NumScale)
    IN  (IF n < 0 THEN <<"-">> ELSE <<>>) \o whole
            \o (IF Len(frac) = 0 THEN <<>> ELSE <<".">> \o frac)

InfinityText == <<"I", "n", "f", "i", "n", "i", "t", "y">>

InvalidDateText == <<"I", "n", "v", "a", "l", "i", "d", " ", "D", "a", "t", "e">>

\* String(value ?? '')
StringOf(cell) ==
    CASE cell.t = "null" -> <<>>
      [] cell.t = "str" -> cell.s
      [] cell.t = "num" -> NumString(cell.n)
      [] cell.t = "bool" -> IF cell.b THEN <<"t", "r", "u", "e">> ELSE <<"f", "a", "l", "s", "e">>
      [] cell.t = "inf" -> (IF cell.neg THEN <<"-">> ELSE <<>>) \o InfinityText
      [] cell.t = "nan" -> <<"N", "a", "N">>
      [] cell.t = "date" /\ ~cell.valid -> InvalidDateText

\* the position of the only "." of s, or 0
DotAt(s) == IF \E i \in 1..Len(s) : s[i] = "." THEN CHOOSE i \in 1..Len(s) : s[i] = "." ELSE 0

\* the value, in 1 / NumScale, of up to five fraction digits
RECURSIVE FracVal(_, _)
FracVal(s, scale) ==
    IF Len(s) = 0 \/ scale = 1 THEN 0
    ELSE DigitVal(s[1]) * (scale \div 10) + FracVal(Tail(s), scale \div 10)

\* Number(raw) for a trimmed, non-empty string gives a finite number: an
\* unsigned decimal literal, digits with at most one "." and a digit somewhere
IsDecimalLiteral(s) ==
    LET d == DotAt(s)
        whole == IF d = 0 THEN s ELSE SubSeq(s, 1, d - 1)
        frac == IF d = 0 THEN <<>> ELSE SubSeq(s, d + 1, Len(s))
    IN  /\ Len(s) > 0
        /\ AllDigits(whole) /\ AllDigits(frac)
        /\ Len(whole) + Len(frac) > 0

DecimalValue(s) ==
    LET d == DotAt(s)
        whole == IF d = 0 THEN s ELSE SubSeq(s, 1, d - 1)
        frac == IF d = 0 THEN <<>> ELSE SubSeq(s, d + 1, Len(s))
    IN  DecVal(whole) * NumScale + FracVal(frac, NumScale)

\* 10^k
RECURSIVE Pow10(_)
Pow10(k) == IF k = 0 THEN 1 ELSE 10 * Pow10(k - 1)

\* the position of the only "e" or "E" of s, or 0
ExpAt(s) ==
    IF \E i \in 1..Len(s) : LowerChar(s[i]) = "e"
    THEN CHOOSE i \in 1..Len(s) : LowerChar(s[i]) = "e"
    ELSE 0

\* an exponent literal: an integer mantissa of one or two digits, "e" or "E",
\* an optional sign and the digits of the exponent
IsExponentLiteral(s) ==
    LET e == ExpAt(s)
        mant == SubSeq(s, 1, e - 1)
        rest == SubSeq(s, e + 1, Len(s))
        digits == IF Len(rest) > 0 /\ rest[1] \in {"+", "-"} THEN Tail(rest) ELSE rest
    IN  /\ e > 1
        /\ Len(mant) \in 1..2 /\ AllDigits(mant)
        /\ Len(digits) \in 1..4 /\ AllDigits(digits)

\* the double an exponent literal denotes: Infinity above the largest double
\* (1.797e308); a finite value is kept exactly between 10^-5 and 10^2 and
\* otherwise by a value of the same class (an integer above 23, or a
\* fraction that rounds to no minute)
ExponentValue(s) ==
    LET e == ExpAt(s)
        mant == DecVal(SubSeq(s, 1, e - 1))
        rest == SubSeq(s, e + 1, Len(s))
        down == rest[1] = "-"
        k == DecVal(IF rest[1] \in {"+", "-"} THEN Tail(rest) ELSE rest)
        order == k + (IF mant >= 10 THEN 1 ELSE 0)
        lead == IF mant >= 10 THEN mant ELSE mant * 10
    IN  IF mant = 0 THEN NumCell(0)
        ELSE IF down THEN NumCell(IF k <= 5 THEN mant * Pow10(5 - k) ELSE 0)
        ELSE IF order >= 309 \/ (order = 308 /\ lead >= 18) THEN InfCell(FALSE)
        ELSE NumCell(mant * Pow10(IF k <= 2 THEN k ELSE 2) * NumScale)

\* Number(raw) of a trimmed, non-empty string without its sign
UnsignedNumber(s) ==
    IF IsDecimalLiteral(s) THEN NumCell(DecimalValue(s))
    ELSE IF s = InfinityText THEN InfCell(FALSE)
    ELSE IF IsExponentLiteral(s) THEN ExponentValue(s)
    ELSE NaNCell

\* Number(raw) of a trimmed, non-empty string: decimal and exponent literals
\* and Infinity, each with an optional sign; NaN for every other text (the
\* radix literals 0x.., 0o.., 0b.. are not among the texts of the model)
NumberOfText(s) ==
    LET signed == s[1] \in {"+", "-"} /\ Len(s) > 1
        u == UnsignedNumber(IF signed THEN Tail(s) ELSE s)
    IN  IF ~signed \/ s[1] = "+" \/ u.t = "nan" THEN u
        ELSE IF u.t = "inf" THEN InfCell(TRUE)
        ELSE NumCell(0 - u.n)

----------------------------------------------------------------------------
(* Tabular import normalizer, routine.tsx *)

\* parseBool
parseBool(cell) ==
    CASE cell.t = "bool" -> cell.b
      [] cell.t = "num" -> cell.n # 0
      [] OTHER ->
            ToLower(Trim(StringOf(cell))) \in
                {<<"1">>, <<"t", "r", "u", "e">>, <<"y", "e", "s">>, <<"y">>}

DayAbbreviations ==
    { <<<<"m", "o", "n">>, "Monday">>, <<<<"m", "o", "n", "d", "a", "y">>, "Monday">>,
      <<<<"t", "u", "e">>, "Tuesday">>, <<<<"t", "u", "e", "s">>, "Tuesday">>,
      <<<<"t", "u", "e", "s", "d", "a", "y">>, "Tuesday">>,
      <<<<"w", "e", "d">>, "Wednesday">>,
      <<<<"w", "e", "d", "n", "e", "s", "d", "a", "y">>, "Wednesday">>,
      <<<<"t", "h", "u">>, "Thursday">>, <<<<"t", "h", "u", "r">>, "Thursday">>,
      <<<<"t", "h", "u", "r", "s">>, "Thursday">>,
      <<<<"t", "h", "u", "r", "s", "d", "a", "y">>, "Thursday">>,
      <<<<"f", "r", "i">>, "Friday">>, <<<<"f", "r", "i", "d", "a", "y">>, "Friday">>,
      <<<<"s", "a", "t">>, "Saturday">>,
      <<<<"s", "a", "t", "u", "r", "d", "a", "y">>, "Saturday">>,
      <<<<"s", "u", "n">>, "Sunday">>, <<<<"s", "u", "n", "d", "a", "y">>, "Sunday">> }

\* toFullDay returns null: no canonical day name (falsy, like the empty string)
NoDay == ""

\* toFullDay: the canonical day name, or null
toFullDay(cell) ==
    LET raw == ToLower(Trim(StringOf(cell)))
    IN  IF \E e \in DayAbbreviations : e[1] = raw
        THEN (CHOOSE e \in DayAbbreviations : e[1] = raw)[2]
        ELSE NoDay

\* normalizeHeader
normalizeHeader(h) == StripSeparators(ToLower(h))

\* the number branch of parseSpreadsheetTime: value in 1 / NumScale
NumberTime(n) ==
    LET frac == n % NumScale
        round(f) == (f * 1440 + NumScale \div 2) \div NumScale
    IN  IF n >= 0 /\ n < NumScale THEN toHHMM(round(n))
        ELSE IF frac > 0 THEN toHHMM(round(frac))
        ELSE IF n >= 0 /\ n <= 23 * NumScale THEN toHHMM((n \div NumScale) * 60)
        ELSE <<>>

\* /([AP]M)$/i
HasMeridiem(s) ==
    /\ Len(s) >= 2
    /\ LowerChar(s[Len(s)]) = "m"
    /\ LowerChar(s[Len(s) - 1]) \in {"a", "p"}

\* /^(\d{1,2})(?::(\d{2}))?(?::\d{2})?$/ : the pieces between colons
ClockPieces(s) ==
    LET parts == SplitColon(s)
    IN  /\ Len(parts) \in 1..3
        /\ Len(parts[1]) \in 1..2 /\ AllDigits(parts[1])
        /\ \A i \in 2..Len(parts) : Len(parts[i]) = 2 /\ AllDigits(parts[i])

\* an AM/PM branch that leaves the hour 12 as it is
ClockTimeNoonKept(raw) ==
    LET head == Trim(SubSeq(raw, 1, Len(raw) - 2))
        parts == SplitColon(head)
        h0 == DecVal(parts[1])
        m == IF Len(parts) >= 2 THEN DecVal(parts[2]) ELSE 0
        pm == LowerChar(raw[Len(raw) - 1]) = "p"
        h == IF ~pm THEN h0 ELSE (IF h0 < 12 THEN h0 + 12 ELSE h0)
        plain == SplitColon(raw)
    IN  IF HasMeridiem(raw) /\ ClockPieces(head) THEN toHHMM(h * 60 + m)
        ELSE IF ClockPieces(raw) /\ Len(plain) >= 2
                  /\ DecVal(plain[1]) <= 23 /\ DecVal(plain[2]) <= 59
             THEN toHHMM(DecVal(plain[1]) * 60 + DecVal(plain[2]))
        ELSE <<>>

\* the string branches of parseSpreadsheetTime after validTime and Number
ClockTime(raw) ==
    LET head == Trim(SubSeq(raw, 1, Len(raw) - 2))
        parts == SplitColon(head)
        h0 == DecVal(parts[1])
        m == IF Len(parts) >= 2 THEN DecVal(parts[2]) ELSE 0
        pm == LowerChar(raw[Len(raw) - 1]) = "p"
        h == IF ~pm THEN (IF h0 = 12 THEN 0 ELSE h0)
             ELSE (IF h0 < 12 THEN h0 + 12 ELSE h0)
        plain == SplitColon(raw)
    IN  IF HasMeridiem(raw) /\ ClockPieces(head) THEN toHHMM(h * 60 + m)
        ELSE IF ClockPieces(raw) /\ Len(plain) >= 2
                  /\ DecVal(plain[1]) <= 23 /\ DecVal(plain[2]) <= 59
             THEN toHHMM(DecVal(plain[1]) * 60 + DecVal(plain[2]))
        ELSE <<>>

\* the call does not return: parseSpreadsheetTime(asNum) with an infinite
\* asNum is not taken by the number branch, String(asNum) is "Infinity",
\* Number of it is asNum again, and the function calls itself without end
\* (a RangeError where the call stack is bounded)
NeverReturns == <<"RangeError: Maximum call stack size exceeded">>

\* parseSpreadsheetTime from line 153 on: raw is not a valid time, asNum is
\* Number(raw)
NumberOrClockTime(raw, asNum) ==
    IF asNum.t = "num" THEN NumberTime(asNum.n)
    ELSE IF asNum.t = "inf" THEN NeverReturns
    ELSE ClockTime(raw)

\* parseSpreadsheetTime from line 148 on, raw = String(value).trim() (the
\* one-element sets have Number(raw) computed once)
TextTime(raw) ==
    IF Len(raw) = 0 THEN <<>>
    ELSE IF validTime(raw) THEN raw
    ELSE CHOOSE t \in {NumberOrClockTime(raw, asNum) : asNum \in {NumberOfText(raw)}} : TRUE

\* parseSpreadsheetTime: canonical HH:MM or the empty string
parseSpreadsheetTime(cell) ==
    CASE cell.t = "null" -> <<>>
      [] cell.t = "date" /\ cell.valid -> toHHMM(cell.h * 60 + cell.m)
      [] cell.t = "num" -> NumberTime(cell.n)
      [] OTHER -> CHOOSE t \in {TextTime(raw) : raw \in {Trim(StringOf(cell))}} : TRUE

\* byKey.get(key): the cell of the last header that normalizes to key, or null
RowGet(row, key) ==
    LET hits == {i \in 1..Len(row) : normalizeHeader(row[i][1]) = key}
    IN  IF hits = {} THEN NullCell
        ELSE row[CHOOSE i \in hits : \A j \in hits : j <= i][2]

\* a ?? b
Coalesce(a, b) == IF a.t = "null" THEN b ELSE a

HTitle == <<"t", "i", "t", "l", "e">>

HActivity == <<"a", "c", "t", "i", "v", "i", "t", "y">>

HTask == <<"t", "a", "s", "k">>

HDay == <<"d", "a", "y">>

HWeekday == <<"w", "e", "e", "k", "d", "a", "y">>

HStartTime == <<"s", "t", "a", "r", "t", "t", "i", "m", "e">>

HStart == <<"s", "t", "a", "r", "t">>

HEndTime == <<"e", "n", "d", "t", "i", "m", "e">>

HEnd == <<"e", "n", "d">>

HReminderEnabled == <<"r", "e", "m", "i", "n", "d", "e", "r", "e", "n", "a", "b", "l", "e", "d">>

HReminder == <<"r", "e", "m", "i", "n", "d", "e", "r">>

HDone == <<"d", "o", "n", "e">>

\* the fields parseImportedRows reads off one row
RowFields(row) ==
    [title |-> Trim(StringOf(Coalesce(RowGet(row, HTitle),
                        Coalesce(RowGet(row, HActivity), RowGet(row, HTask))))),
     day |-> toFullDay(Coalesce(RowGet(row, HDay), RowGet(row, HWeekday))),
     startTime |-> parseSpreadsheetTime(Coalesce(RowGet(row, HStartTime), RowGet(row, HStart))),
     endTime |-> parseSpreadsheetTime(Coalesce(RowGet(row, HEndTime), RowGet(row, HEnd))),
     done |-> parseBool(RowGet(row, HDone)),
     reminderEnabled |->
        IF parseBool(Coalesce(RowGet(row, HReminderEnabled), RowGet(row, HReminder)))
        THEN 1 ELSE 0]

\* if (!title && !day && !startTime && !endTime) continue
RowIsSkipped(f) ==
    Len(f.title) = 0 /\ f.day = NoDay /\ Len(f.startTime) = 0 /\ Len(f.endTime) = 0

\* the error parseImportedRows throws for the fields of row i (0-based), or Null
RowError(f, i) ==
    IF f.startTime = NeverReturns \/ f.endTime = NeverReturns
    THEN [kind |-> "RangeError", row |-> i + 2]
    ELSE IF Len(f.title) = 0 \/ f.day = NoDay \/ Len(f.startTime) = 0 \/ Len(f.endTime) = 0
    THEN [kind |-> "missing required fields", row |-> i + 2]
    ELSE IF ~validTime(f.startTime) \/ ~validTime(f.endTime)
    THEN [kind |-> "invalid time", row |-> i + 2]
    ELSE IF timeToMinutes(f.endTime) <= timeToMinutes(f.startTime)
    THEN [kind |-> "endTime earlier than startTime", row |-> i + 2]
    ELSE Null

\* the loop of parseImportedRows from row i (0-based) on, parsed so far given
RECURSIVE ParseRowsFrom(_, _, _)
ParseRowsFrom(rows, i, parsed) ==
    IF i >= Len(rows) THEN [ok |-> TRUE, items |-> parsed]
    ELSE LET f == RowFields(rows[i + 1])
         IN  IF RowIsSkipped(f) THEN ParseRowsFrom(rows, i + 1, parsed)
             ELSE IF RowError(f, i) # Null THEN [ok |-> FALSE, error |-> RowError(f, i)]
             ELSE ParseRowsFrom(rows, i + 1, Append(parsed, f))

\* a loop that stops at the first bad row and keeps what it parsed before it
RECURSIVE ParseRowsUntilError(_, _, _)
ParseRowsUntilError(rows, i, parsed) ==
    IF i >= Len(rows) THEN [ok |-> TRUE, items |-> parsed]
    ELSE LET f == RowFields(rows[i + 1])
         IN  IF RowIsSkipped(f) THEN ParseRowsUntilError(rows, i + 1, parsed)
             ELSE IF RowError(f, i) # Null THEN [ok |-> TRUE, items |-> parsed]
             ELSE ParseRowsUntilError(rows, i + 1, Append(parsed, f))

parseImportedRowsPartial(rows) == ParseRowsUntilError(rows, 0, <<>>)

parseImportedRows(rows) == ParseRowsFrom(rows, 0, <<>>)

----------------------------------------------------------------------------
(* The routine list, routine.tsx *)

dayWeight(day) ==
    CASE day = "Monday" -> 1
      [] day = "Tuesday" -> 2
      [] day = "Wednesday" -> 3
      [] day = "Thursday" -> 4
      [] day = "Friday" -> 5
      [] day = "Saturday" -> 6
      [] day = "Sunday" -> 7
      [] OTHER -> 8

\* DAY_FULL[formDay] ?? 'Monday'
DayFull(short) ==
    CASE short = "Mon" -> "Monday"
      [] short = "Tue" -> "Tuesday"
      [] short = "Wed" -> "Wednesday"
      [] short = "Thu" -> "Thursday"
      [] short = "Fri" -> "Friday"
      [] short = "Sat" -> "Saturday"
      [] short = "Sun" -> "Sunday"
      [] OTHER -> "Monday"

\* a.localeCompare(b) < 0 for strings of digits and colons of the same shape
RECURSIVE StrLess(_, _)
StrLess(a, b) ==
    IF Len(b) = 0 THEN FALSE
    ELSE IF Len(a) = 0 THEN TRUE
    ELSE IF a[1] = b[1] THEN StrLess(Tail(a), Tail(b))
    ELSE IsDigit(a[1]) /\ IsDigit(b[1]) /\ DigitVal(a[1]) < DigitVal(b[1])

\* the comparator of sortRoutine is negative
ItemBefore(a, b) ==
    \/ dayWeight(a.day) < dayWeight(b.day)
    \/ dayWeight(a.day) = dayWeight(b.day) /\ StrLess(a.startTime, b.startTime)

RECURSIVE InsertItem(_, _)
InsertItem(sorted, x) ==
    IF Len(sorted) = 0 THEN <<x>>
    ELSE IF ItemBefore(x, sorted[1]) THEN <<x>> \o sorted
    ELSE <<sorted[1]>> \o InsertItem(Tail(sorted), x)

\* sortRoutine: a stable sort by day, then start time
RECURSIVE sortRoutine(_)
sortRoutine(list) ==
    IF Len(list) = 0 THEN <<>>
    ELSE InsertItem(sortRoutine(SubSeq(list, 1, Len(list) - 1)), list[Len(list)])

\* getRoutineNotificationIds (every item the screen writes keeps reminderId
\* equal to the first of reminderIds, so reminderIds decides)
getRoutineNotificationIds(item) == item.reminderIds

\* items.map(i => (i.id === id ? { ...i, ...over } : i))
MapItem(list, id, over) ==
    [k \in 1..Len(list) |-> IF list[k].id = id THEN over @@ list[k] ELSE list[k]]

\* items.filter(i => i.id !== id)
FilterOut(list, id) == SelectSeq(list, LAMBDA i : i.id # id)

\* the elements of a sequence
Range(seq) == {seq[k] : k \in 1..Len(seq)}

----------------------------------------------------------------------------
(* Handlers in flight *)

MaxInFlight == 2

MaxOps == 2

Slots == 1..MaxInFlight

NoAlert == [title |-> "none"]

NoItem == [id |-> 0]

IdleOp ==
    [kind |-> "none", pc |-> "idle", snap |-> <<>>, item |-> NoItem, target |-> 0,
     ids |-> <<>>, known |-> {}, log |-> <<>>, rows |-> <<>>, created |-> <<>>,
     queue |-> <<>>, lead |-> 0, want |-> FALSE, refused |-> {}, granted |-> {},
     input |-> <<>>, active |-> Null, alert |-> NoAlert, failed |-> {}]

\* what a handler leaves behind when it returns
DoneOp(op, alert) ==
    [IdleOp EXCEPT !.kind = op.kind, !.pc = "done", !.target = op.target,
                   !.want = op.want, !.refused = op.refused, !.granted = op.granted,
                   !.input = op.input, !.log = op.log, !.known = op.known,
                   !.alert = alert, !.failed = op.failed]

\* the handler in slot o returns, showing alert
Return(o, op, alert) ==
    /\ ops' = [ops EXCEPT ![o] = IdleOp]
    /\ lastDone' = DoneOp(op, alert)

\* the handler in slot o goes on as op
Goes(o, op) ==
    /\ ops' = [ops EXCEPT ![o] = op]
    /\ UNCHANGED lastDone

Free(o) == ops[o].pc = "idle"

\* a new handler takes the lowest free slot
CanStart(o) == Free(o) /\ started < MaxOps /\ \A q \in 1..(o - 1) : ~Free(q)

\* Notifications.cancelScheduledNotificationAsync for each id: a no-op on an
\* identifier that is not scheduled
CancelAll(ids) == [n \in (DOMAIN notifs) \ ids |-> notifs[n]]

\* the cancel calls for ids of which those for failed reject: what a rejected
\* call was to cancel stays scheduled
CancelSome(ids, failed) == [n \in (DOMAIN notifs) \ (ids \ failed) |-> notifs[n]]

\* the rejections of cancel calls that get past a handler that lets them
\* through
Uncaught(failed) == failed

\* Notifications.cancelScheduledNotificationAsync(id).catch(() => {}): of the
\* rejections of the cancel calls, those that reach the awaiting handler
Caught(failed) == {}

CancelLog(item, ids) ==
    LET RECURSIVE Entries(_)
        Entries(list) ==
            IF Len(list) = 0 THEN <<>>
            ELSE <<[call |-> "cancel", id |-> list[1], item |-> item]>> \o Entries(Tail(list))
    IN  Entries(ids)

\* persistRoutine: sort, setItems, AsyncStorage.setItem
persistRoutine(next) ==
    /\ items' = sortRoutine(next)
    /\ routineStore' = sortRoutine(next)

----------------------------------------------------------------------------
(* RoutineScreen handlers.  A handler works on the list of the render it   *)
(* was created in (snap) until it returns; every await is a step boundary. *)

\* what the user typed into the add/edit form
Forms ==
    { [title |-> <<"G", "y", "m">>, formDay |-> "Mon",
       startTime |-> HHMM(8, 0), endTime |-> HHMM(9, 0)],
      [title |-> <<"R", "e", "a", "d">>, formDay |-> "Sun",
       startTime |-> HHMM(0, 10), endTime |-> HHMM(1, 0)],
      [title |-> <<"G", "y", "m">>, formDay |-> "Mon",
       startTime |-> HHMM(9, 0), endTime |-> HHMM(8, 0)] }

\* the alert saveItem returns early with, or NoAlert
FormError(form) ==
    IF Len(Trim(form.title)) = 0 THEN [title |-> "Missing title"]
    ELSE IF ~validTime(Trim(form.startTime)) \/ ~validTime(Trim(form.endTime))
    THEN [title |-> "Invalid time"]
    ELSE IF timeToMinutes(Trim(form.endTime)) <= timeToMinutes(Trim(form.startTime))
    THEN [title |-> "Invalid range"]
    ELSE NoAlert

FormItem(id, form, rem, done) ==
    [id |-> id, title |-> Trim(form.title), day |-> DayFull(form.formDay),
     startTime |-> Trim(form.startTime), endTime |-> Trim(form.endTime),
     done |-> done, reminderEnabled |-> IF rem THEN 1 ELSE 0, reminderIds |-> <<>>]

\* the item importParsedItems builds from a parsed row
RowItem(id, r) ==
    [id |-> id, title |-> r.title, day |-> r.day, startTime |-> r.startTime,
     endTime |-> r.endTime, done |-> r.done, reminderEnabled |-> r.reminderEnabled,
     reminderIds |-> <<>>]

\* item.reminderIds = ids ?? []; item.reminderEnabled = ids && ids.length > 0 ? 1 : 0
WithIds(item, ids) ==
    [item EXCEPT !.reminderIds = ids, !.reminderEnabled = IF Len(ids) > 0 THEN 1 ELSE 0]

\* the loop of importParsedItems up to its next await: rows without a
\* reminder are created at once; a row with one waits for the service
RECURSIVE ImportAdvance(_, _, _)
ImportAdvance(rows, created, id) ==
    IF Len(rows) = 0 THEN [rows |-> rows, created |-> created, nextId |-> id]
    ELSE IF rows[1].reminderEnabled = 1 THEN [rows |-> rows, created |-> created, nextId |-> id]
    ELSE ImportAdvance(Tail(rows), Append(created, RowItem(id, rows[1])), id + 1)

\* importParsedItems from a point where it runs on without a reminder pending
ImportContinue(o, op, rows, created) ==
    LET adv == ImportAdvance(rows, created, nextItemId)
    IN  IF Len(adv.rows) = 0
        THEN /\ persistRoutine(op.snap \o adv.created)
             /\ nextItemId' = adv.nextId
             /\ Return(o, op, [title |-> "Imported"])
        ELSE /\ nextItemId' = adv.nextId + 1
             /\ Goes(o, [op EXCEPT !.pc = "perm", !.rows = Tail(adv.rows),
                               !.created = adv.created, !.ids = <<>>,
                               !.item = RowItem(adv.nextId, adv.rows[1])])
             /\ UNCHANGED <<items, routineStore>>

\* the caller of scheduleRoutineNotifications goes on with its result (ids,
\* empty for null)
AfterSchedule(o, op, ids) ==
    LET disabled == [title |-> "Reminder disabled"]
        alert == IF Len(ids) = 0 THEN disabled ELSE NoAlert
    IN  CASE op.kind = "saveAdd" ->
                /\ persistRoutine(Append(op.snap, WithIds(op.item, ids)))
                /\ Return(o, op, alert)
                /\ UNCHANGED nextItemId
          [] op.kind = "saveEdit" ->
                /\ persistRoutine(MapItem(op.snap, op.target, WithIds(op.item, ids)))
                /\ Return(o, op, alert)
                /\ UNCHANGED nextItemId
          [] op.kind = "toggleReminder" ->
                /\ IF Len(ids) = 0
                   THEN UNCHANGED <<items, routineStore>>
                   ELSE persistRoutine(MapItem(op.snap, op.target,
                            [reminderEnabled |-> 1, reminderIds |-> ids]))
                /\ Return(o, op, alert)
                /\ UNCHANGED nextItemId
          [] op.kind = "import" ->
                ImportContinue(o, op, op.rows, Append(op.created, WithIds(op.item, ids)))

\* saveItem with no editingId, up to its first await
SaveItemAdd(o) ==
    \E form \in Forms, rem \in BOOLEAN :
        LET op == [IdleOp EXCEPT !.kind = "saveAdd", !.target = nextItemId, !.want = rem,
                                 !.snap = items, !.lead = reminderLeadTime,
                                 !.item = FormItem(nextItemId, form, rem, FALSE)]
        IN  /\ CanStart(o)
            /\ started' = started + 1
            /\ UNCHANGED <<trigVars, serviceVars, reminderLeadTime, lectureVars>>
            /\ IF FormError(form) # NoAlert
               THEN /\ Return(o, [op EXCEPT !.target = 0], FormError(form))
                    /\ UNCHANGED routineVars
               ELSE IF rem
               THEN /\ Goes(o, [op EXCEPT !.pc = "perm"])
                    /\ nextItemId' = nextItemId + 1
                    /\ UNCHANGED <<items, routineStore>>
               ELSE /\ persistRoutine(Append(items, op.item))
                    /\ nextItemId' = nextItemId + 1
                    /\ Return(o, op, NoAlert)

\* saveItem with editingId set to an item of the list: validation, then
\* cancelRoutineNotifications(prev) issues its cancel calls
SaveItemEdit(o) ==
    \E k \in 1..Len(items), form \in Forms, rem \in BOOLEAN :
        LET prev == items[k]
            op == [IdleOp EXCEPT !.kind = "saveEdit", !.target = prev.id, !.want = rem,
                                 !.snap = items, !.lead = reminderLeadTime,
                                 !.known = Range(getRoutineNotificationIds(prev)),
                                 !.item = FormItem(prev.id, form, rem, prev.done)]
        IN  /\ CanStart(o)
            /\ started' = started + 1
            /\ UNCHANGED <<trigVars, perm, nextNid, reminderLeadTime, lectureVars, routineVars>>
            /\ IF FormError(form) # NoAlert
               THEN /\ Return(o, op, FormError(form))
                    /\ UNCHANGED notifs
               ELSE \E failed \in SUBSET Range(getRoutineNotificationIds(prev)) :
                    /\ notifs' = CancelSome(Range(getRoutineNotificationIds(prev)), failed)
                    /\ Goes(o, [op EXCEPT !.pc = "cancelled", !.failed = failed,
                                       !.log = CancelLog(prev.id, getRoutineNotificationIds(prev))])

\* toggleDone
ToggleDone(o) ==
    \E k \in 1..Len(items) :
        LET op == [IdleOp EXCEPT !.kind = "toggleDone", !.target = items[k].id]
        IN  /\ CanStart(o)
            /\ started' = started + 1
            /\ persistRoutine(MapItem(items, items[k].id,
                                      [done |-> ~items[k].done]))
            /\ Return(o, op, NoAlert)
            /\ UNCHANGED <<trigVars, serviceVars, reminderLeadTime, lectureVars, nextItemId>>

\* toggleReminder(item, value): item is the item of the render the event is
\* delivered to, value is what the switch reports
ToggleReminder(o) ==
    \E k \in 1..Len(items), value \in BOOLEAN :
        LET item == items[k]
            op == [IdleOp EXCEPT !.kind = "toggleReminder", !.target = item.id,
                                 !.want = value, !.snap = items, !.item = item,
                                 !.lead = reminderLeadTime,
                                 !.known = Range(getRoutineNotificationIds(item))]
        IN  /\ CanStart(o)
            /\ started' = started + 1
            /\ UNCHANGED <<trigVars, perm, nextNid, reminderLeadTime, lectureVars, routineVars>>
            /\ IF value
               THEN /\ Goes(o, [op EXCEPT !.pc = "perm"])
                    /\ UNCHANGED notifs
               ELSE \E failed \in SUBSET Range(getRoutineNotificationIds(item)) :
                    /\ notifs' = CancelSome(Range(getRoutineNotificationIds(item)), failed)
                    /\ Goes(o, [op EXCEPT !.pc = "cancelled", !.failed = failed,
                                       !.log = CancelLog(item.id, getRoutineNotificationIds(item))])

\* deleteItem(item): the confirmation dialog opens, holding the item and the
\* list of this render
DeleteItem(o) ==
    \E k \in 1..Len(items) :
        /\ CanStart(o)
        /\ started' = started + 1
        /\ Goes(o, [IdleOp EXCEPT !.kind = "deleteItem", !.pc = "confirm", !.target = items[k].id,
                               !.snap = items, !.item = items[k],
                               !.known = Range(getRoutineNotificationIds(items[k]))])
        /\ UNCHANGED <<trigVars, serviceVars, reminderLeadTime, lectureVars, routineVars>>

\* the Delete button of the dialog: cancelRoutineNotifications(item)
ConfirmDelete(o) ==
    LET op == ops[o]
    IN  /\ op.pc = "confirm"
        /\ \E failed \in SUBSET Range(getRoutineNotificationIds(op.item)) :
              /\ notifs' = CancelSome(Range(getRoutineNotificationIds(op.item)), failed)
              /\ Goes(o, [op EXCEPT !.pc = "cancelled", !.failed = failed,
                                 !.log = CancelLog(op.target, getRoutineNotificationIds(op.item))])
        /\ UNCHANGED <<trigVars, perm, nextNid, reminderLeadTime, lectureVars, routineVars, started>>

\* getRoutineNotificationIds of the settings screen over the stored items
RECURSIVE AllRoutineIds(_)
AllRoutineIds(routines) ==
    IF Len(routines) = 0 THEN <<>>
    ELSE getRoutineNotificationIds(routines[1]) \o AllRoutineIds(Tail(routines))

\* handleDeleteAllRoutine, the Delete All button of its dialog: up to
\* AsyncStorage.getItem
DeleteAllRoutine(o) ==
    /\ CanStart(o)
    /\ started' = started + 1
    /\ Goes(o, [IdleOp EXCEPT !.kind = "deleteAllRoutine", !.pc = "reading"])
    /\ UNCHANGED <<trigVars, serviceVars, reminderLeadTime, lectureVars, routineVars>>

\* handleDeleteAllRoutine with the stored list read: the cancel calls for the
\* identifiers of every stored item
ReadRoutine(o) ==
    LET op == ops[o]
        ids == AllRoutineIds(routineStore)
    IN  /\ op.pc = "reading"
        /\ \E failed \in SUBSET Range(ids) :
              /\ notifs' = CancelSome(Range(ids), failed)
              /\ Goes(o, [op EXCEPT !.pc = "cancelled", !.failed = failed, !.snap = routineStore,
                                 !.known = Range(ids), !.log = CancelLog(0, ids)])
        /\ UNCHANGED <<trigVars, perm, nextNid, reminderLeadTime, lectureVars, routineVars, started>>

\* loadRoutine when the routine tab gets the focus: the stored list replaces
\* the rendered one
FocusRoutine ==
    /\ items # sortRoutine(routineStore)
    /\ items' = sortRoutine(routineStore)
    /\ UNCHANGED <<trigVars, serviceVars, reminderLeadTime, lectureVars, routineStore,
                   nextItemId, opVars, started>>

\* the cancel calls have settled: the handler goes on to its next await
AfterCancel(o) ==
    LET op == ops[o]
    IN  /\ op.pc = "cancelled"
        /\ UNCHANGED <<trigVars, serviceVars, reminderLeadTime, lectureVars, nextItemId, started>>
        /\ CASE Caught(op.failed) # {} ->
                    \* the await rejects and the handler ends there
                    /\ Return(o, op, NoAlert)
                    /\ UNCHANGED <<items, routineStore>>
             [] op.kind = "saveEdit" ->
                    IF op.want
                    THEN /\ Goes(o, [op EXCEPT !.pc = "perm"])
                         /\ UNCHANGED <<items, routineStore>>
                    ELSE /\ persistRoutine(MapItem(op.snap, op.target, op.item))
                         /\ Return(o, op, NoAlert)
             [] op.kind = "toggleReminder" ->
                    /\ persistRoutine(MapItem(op.snap, op.target,
                            [reminderEnabled |-> 0, reminderIds |-> <<>>]))
                    /\ Return(o, op, NoAlert)
             [] op.kind = "deleteItem" ->
                    /\ persistRoutine(FilterOut(op.snap, op.target))
                    /\ Return(o, op, NoAlert)
             [] op.kind = "deleteAllRoutine" ->
                    \* AsyncStorage.setItem(ROUTINE_KEY, '[]')
                    /\ routineStore' = <<>>
                    /\ UNCHANGED items
                    /\ Return(o, op, NoAlert)

\* the rows handed to importFromJson / importFromExcel
Cell(s) == StrCell(s)

GoodRow(rem) ==
    << <<<<"T", "i", "t", "l", "e">>, Cell(<<"G", "y", "m">>)>>,
       <<<<"D", "a", "y">>, Cell(<<"M", "o", "n">>)>>,
       <<<<"S", "t", "a", "r", "t">>, Cell(<<"7", "a", "m">>)>>,
       <<<<"E", "n", "d">>, Cell(<<"8", ":", "0", "0", "a", "m">>)>>,
       <<<<"R", "e", "m", "i", "n", "d", "e", "r">>, Cell(rem)>> >>

FourCells(title, day, start, end) ==
    << <<HTitle, Cell(title)>>, <<HDay, Cell(day)>>,
       <<<<"s", "t", "a", "r", "t", "_", "t", "i", "m", "e">>, Cell(start)>>,
       <<<<"e", "n", "d", " ", "t", "i", "m", "e">>, Cell(end)>> >>

BlankRow == FourCells(<<>>, <<>>, <<" ">>, <<>>)

OnlyBadDayRow == FourCells(<<>>, <<"F", "u", "n", "d", "a", "y">>, <<>>, <<>>)

OnlyBadTimeRow == FourCells(<<>>, <<>>, <<"2", "5", ":", "0", "0">>, <<>>)

OnlyDayRow == FourCells(<<>>, <<"T", "u", "e">>, <<>>, <<>>)

NoTitleRow == FourCells(<<>>, <<"T", "u", "e">>, <<"0", "9", ":", "0", "0">>, <<"1", "0", ":", "0", "0">>)

BadStartRow == FourCells(<<"R", "u", "n">>, <<"T", "u", "e">>, <<"9", "x">>, <<"1", "0", ":", "0", "0">>)

BadOrderRow == FourCells(<<"R", "u", "n">>, <<"T", "u", "e">>, <<"1", "0", ":", "0", "0">>, <<"9", ":", "0", "0">>)

\* ensureNotificationPermission resolves with the permission as it is now:
\* the user may have answered the request or changed the system setting
\* since it was last looked at
PermStep(o) ==
    \E now \in {"granted", "denied"} :
        LET op == ops[o]
        IN  /\ op.pc = "perm"
            /\ perm' = now
            /\ UNCHANGED <<trigVars, notifs, nextNid, reminderLeadTime, lectureVars, started>>
            /\ IF now = "granted"
               THEN /\ Goes(o, [op EXCEPT !.pc = IF op.lead > 0 THEN "lead" ELSE "start",
                                          !.ids = <<>>, !.granted = @ \cup {op.item.id}])
                    /\ UNCHANGED routineVars
               ELSE AfterSchedule(o, [op EXCEPT !.refused = @ \cup {op.item.id}], <<>>)

\* one Notifications.scheduleNotificationAsync of scheduleRoutineNotifications
\* resolves: lead, then start, then end; after the last the caller goes on
SchedStep(o) ==
    LET op == ops[o]
        time == IF op.pc = "end" THEN op.item.endTime ELSE op.item.startTime
        offset == IF op.pc = "lead" THEN op.lead ELSE 0
        trigger == getWeeklyTrigger(op.item.day, time, offset)
        id == <<"n", nextNid>>
        ids == IF trigger = Null THEN op.ids ELSE Append(op.ids, id)
        log == IF trigger = Null THEN op.log
               ELSE Append(op.log, [call |-> "schedule", id |-> id, item |-> op.item.id])
    IN  /\ op.pc \in {"lead", "start", "end"}
        /\ notifs' = IF trigger = Null THEN notifs ELSE (id :> trigger) @@ notifs
        /\ nextNid' = IF trigger = Null THEN nextNid ELSE nextNid + 1
        /\ UNCHANGED <<trigVars, perm, reminderLeadTime, lectureVars, started>>
        /\ IF op.pc = "end"
           THEN AfterSchedule(o, [op EXCEPT !.log = log], ids)
           ELSE /\ Goes(o, [op EXCEPT !.pc = IF op.pc = "lead" THEN "start" ELSE "end",
                                   !.ids = ids, !.log = log])
                /\ UNCHANGED routineVars

\* one Notifications.scheduleNotificationAsync of scheduleRoutineNotifications
\* rejects: nothing catches it in scheduleRoutineNotifications, saveItem,
\* toggleReminder or importParsedItems, so the handler ends without
\* persistRoutine; importFromJson and importFromExcel catch it and alert
SchedReject(o) ==
    LET op == ops[o]
        time == IF op.pc = "end" THEN op.item.endTime ELSE op.item.startTime
        offset == IF op.pc = "lead" THEN op.lead ELSE 0
        log == Append(op.log, [call |-> "rejected", id |-> <<"n", 0>>, item |-> op.item.id])
    IN  /\ op.pc \in {"lead", "start", "end"}
        /\ getWeeklyTrigger(op.item.day, time, offset) # Null
        /\ Return(o, [op EXCEPT !.log = log],
                  IF op.kind = "import"
                  THEN [title |-> "Import failed", error |-> [kind |-> "rejected", row |-> 0]]
                  ELSE NoAlert)
        /\ UNCHANGED <<trigVars, serviceVars, reminderLeadTime, lectureVars, routineVars, started>>

\* importFromJson / importFromExcel with the rows read: parseImportedRows,
\* then importParsedItems up to its first await
ImportRows(o, rows) ==
    LET parse == parseImportedRows(rows)
        op == [IdleOp EXCEPT !.kind = "import", !.snap = items, !.input = rows,
                             !.lead = reminderLeadTime]
    IN  /\ CanStart(o)
        /\ started' = started + 1
        /\ UNCHANGED <<trigVars, serviceVars, reminderLeadTime, lectureVars>>
        /\ IF ~parse.ok
           THEN /\ Return(o, op, [title |-> "Import failed", error |-> parse.error])
                /\ UNCHANGED routineVars
           ELSE IF Len(parse.items) = 0
           THEN /\ Return(o, op, [title |-> "No items"])
                /\ UNCHANGED routineVars
           ELSE ImportContinue(o, op, parse.items, <<>>)

----------------------------------------------------------------------------
(* The lecture store (key-value) and ScheduleContext.tsx.  A call of the   *)
(* store (load, change, save) is taken as one step.                        *)

\* useState(10)
DEFAULT_LEAD == 10

LEAD_TIMES == {5, 10, 15, 20, 30}

\* the identifier `lecture-${id}`
LectureId(id) == <<"lecture", id>>

\* getAllLectures: the stored lectures sorted by day, then start time
RECURSIVE getAllLectures(_)
getAllLectures(db) ==
    IF Len(db) = 0 THEN <<>>
    ELSE InsertItem(getAllLectures(SubSeq(db, 1, Len(db) - 1)), db[Len(db)])

\* updateLecture
updateLecture(db, lecture) == MapItem(db, lecture.id, lecture)

\* deleteLecture
deleteLecture(db, id) == FilterOut(db, id)

\* toggleReminder of the store
storeToggleReminder(db, id, enabled) ==
    MapItem(db, id, [reminderEnabled |-> IF enabled THEN 1 ELSE 0])

\* insertLectures: each lecture gets the next id of the counter
RECURSIVE insertLectures(_, _, _)
insertLectures(db, counter, new) ==
    IF Len(new) = 0 THEN [db |-> db, counter |-> counter]
    ELSE insertLectures(Append(db, [new[1] EXCEPT !.id = counter + 1]), counter + 1, Tail(new))

\* the trigger scheduleNotification computes, or Null where it returns null
\* before any call to the service
lectureTrigger(lecture, leadTime) ==
    LET dayNum == getDayNumber(lecture.day)
        notifyMins == timeToMinutes(lecture.startTime) - leadTime
        notifyHour == JsFloorDiv(notifyMins, 60)
        notifyMinute == JsMod(notifyMins, 60)
    IN  IF dayNum < 0 THEN Null
        ELSE IF notifyHour < 0 \/ notifyMinute < 0 THEN Null
        ELSE [weekday |-> IF dayNum = 0 THEN 1 ELSE dayNum + 1,
              hour |-> notifyHour, minute |-> notifyMinute, repeats |-> TRUE]

\* what the service holds under the lecture's identifier, or Null
ActiveFor(ns, id) == IF LectureId(id) \in DOMAIN ns THEN ns[LectureId(id)] ELSE Null

\* what the edit-lecture form holds
MondayForm ==
    [day |-> "Monday", subject |-> "Math", room |-> "CR-1", teacher |-> "Dr. A",
     startTime |-> HHMM(9, 0), endTime |-> HHMM(10, 20)]

SundayForm ==
    [day |-> "Sunday", subject |-> "Math", room |-> "CR-1", teacher |-> "Dr. A",
     startTime |-> HHMM(0, 5), endTime |-> HHMM(1, 0)]

\* a start typed without its leading zero, after the end
ShortHourForm ==
    [day |-> "Monday", subject |-> "Math", room |-> "CR-1", teacher |-> "Dr. A",
     startTime |-> <<"9", ":", "3", "0">>, endTime |-> HHMM(9, 0)]

LectureForms == {MondayForm, SundayForm, ShortHourForm}

\* /^\d{1,2}:\d{2}$/
timeRe(t) == ClockPieces(t) /\ Len(SplitColon(t)) = 2

\* validate of the edit-lecture screen: the alert, or NoAlert
validate(form) ==
    IF form.subject = "" \/ form.room = "" \/ form.teacher = "" THEN [title |-> "Missing field"]
    ELSE IF ~timeRe(form.startTime) \/ ~timeRe(form.endTime) THEN [title |-> "Invalid time"]
    ELSE NoAlert

FormLecture(id, form, enabled) ==
    [id |-> id, day |-> form.day, subject |-> form.subject, room |-> form.room,
     teacher |-> form.teacher, startTime |-> form.startTime, endTime |-> form.endTime,
     reminderEnabled |-> enabled]

\* the elements of the array handleImportJson is given: objects holding some
\* of the fields, or null
JsonFields == {"day", "subject", "room", "teacher", "startTime", "endTime"}

GoodElement == MondayForm

NoRoomElement == [f \in JsonFields \ {"room"} |-> MondayForm[f]]

FundayElement == [MondayForm EXCEPT !.day = "Funday"]

LowerDayElement == [MondayForm EXCEPT !.day = "monday"]

\* an element that ends before it starts
LateStartElement == [MondayForm EXCEPT !.startTime = HHMM(10, 20), !.endTime = HHMM(9, 0)]

\* !item[f]: the field is absent or the empty string
Falsy(item, f) ==
    \/ f \notin DOMAIN item
    \/ IF f \in {"startTime", "endTime"} THEN Len(item[f]) = 0 ELSE item[f] = ""

\* what the callback of raw.map throws for element i (0-based), or Null
JsonItemError(item, i) ==
    IF item = Null THEN [kind |-> "TypeError"]
    ELSE IF \E f \in JsonFields : Falsy(item, f)
    THEN [kind |-> "missing required fields", item |-> i + 1]
    ELSE IF item.day \notin CanonicalDays
    THEN [kind |-> "Invalid day", item |-> i + 1]
    ELSE Null

RECURSIVE ParseJsonFrom(_, _, _)
ParseJsonFrom(raw, i, out) ==
    IF i >= Len(raw) THEN [ok |-> TRUE, lectures |-> out]
    ELSE IF JsonItemError(raw[i + 1], i) # Null
    THEN [ok |-> FALSE, error |-> JsonItemError(raw[i + 1], i)]
    ELSE ParseJsonFrom(raw, i + 1, Append(out, FormLecture(0, raw[i + 1], 0)))

parseJsonLectures(raw) == ParseJsonFrom(raw, 0, <<>>)

\* handleImportJson with the array parsed from the text: parseJsonLectures,
\* then importLectures calls insertLectures
ImportJson(o, raw) ==
    LET parse == parseJsonLectures(raw)
        op == [IdleOp EXCEPT !.kind = "importJson", !.input = raw]
        ins == insertLectures(lectureDb, lectureCounter, parse.lectures)
    IN  /\ CanStart(o)
        /\ started' = started + 1
        /\ UNCHANGED <<trigVars, serviceVars, reminderLeadTime, routineVars, lectures>>
        /\ IF ~parse.ok
           THEN /\ Return(o, op, [title |-> "Import Failed", error |-> parse.error])
                /\ UNCHANGED <<lectureDb, lectureCounter>>
           ELSE /\ lectureDb' = ins.db
                /\ lectureCounter' = ins.counter
                /\ Goes(o, [op EXCEPT !.pc = "stored", !.want = TRUE])

\* a handler returns with what the service holds for its lecture
ReturnLecture(o, op) ==
    /\ ops' = [ops EXCEPT ![o] = IdleOp]
    /\ lastDone' = [DoneOp(op, NoAlert) EXCEPT !.item = op.item, !.lead = op.lead,
                                               !.snap = op.snap,
                                               !.active = ActiveFor(notifs', op.item.id)]

\* scheduleNotification has returned: the next lecture of setReminderLeadTime,
\* or the handler is through
AfterLectureSchedule(o, op) ==
    IF Len(op.queue) = 0 THEN ReturnLecture(o, op)
    ELSE Goes(o, [op EXCEPT !.pc = "lperm", !.item = op.queue[1], !.queue = Tail(op.queue)])

\* handleSave without an existing lecture: validate, then addLecture calls
\* insertLecture
AddLecture(o) ==
    \E form \in LectureForms :
        LET op == [IdleOp EXCEPT !.kind = "addLecture", !.target = lectureCounter + 1,
                                 !.lead = reminderLeadTime,
                                 !.item = FormLecture(lectureCounter + 1, form, 0)]
            ins == insertLectures(lectureDb, lectureCounter, <<op.item>>)
        IN  /\ CanStart(o)
            /\ started' = started + 1
            /\ UNCHANGED <<trigVars, serviceVars, reminderLeadTime, routineVars, lectures>>
            /\ IF validate(form) # NoAlert
               THEN /\ Return(o, [op EXCEPT !.target = 0], validate(form))
                    /\ UNCHANGED <<lectureDb, lectureCounter>>
               ELSE /\ lectureDb' = ins.db
                    /\ lectureCounter' = ins.counter
                    /\ Goes(o, [op EXCEPT !.pc = "stored"])

\* handleSave for an existing lecture of the rendered list: validate, then
\* editLecture calls updateLecture
EditLecture(o) ==
    \E k \in 1..Len(lectures), form \in LectureForms :
        LET existing == lectures[k]
            op == [IdleOp EXCEPT !.kind = "editLecture", !.target = existing.id,
                                 !.lead = reminderLeadTime,
                                 !.want = existing.reminderEnabled = 1,
                                 !.snap = <<existing>>,
                                 !.item = FormLecture(existing.id, form, existing.reminderEnabled)]
        IN  /\ CanStart(o)
            /\ started' = started + 1
            /\ UNCHANGED <<trigVars, serviceVars, reminderLeadTime, routineVars, lectures,
                           lectureCounter>>
            /\ IF validate(form) # NoAlert
               THEN /\ Return(o, op, validate(form))
                    /\ UNCHANGED lectureDb
               ELSE /\ lectureDb' = updateLecture(lectureDb, op.item)
                    /\ Goes(o, [op EXCEPT !.pc = "stored"])

\* toggleLectureReminder(id, enabled) from the switch of a rendered lecture:
\* toggleReminder of the store
ToggleLectureReminder(o) ==
    \E k \in 1..Len(lectures), enabled \in BOOLEAN :
        LET op == [IdleOp EXCEPT !.kind = "toggleLectureReminder", !.target = lectures[k].id,
                                 !.lead = reminderLeadTime, !.want = enabled,
                                 !.item = lectures[k], !.pc = "stored"]
        IN  /\ CanStart(o)
            /\ started' = started + 1
            /\ lectureDb' = storeToggleReminder(lectureDb, op.target, enabled)
            /\ Goes(o, op)
            /\ UNCHANGED <<trigVars, serviceVars, reminderLeadTime, routineVars, lectures,
                           lectureCounter>>

\* removeLecture(id) from the confirmation dialog: cancelNotification
RemoveLecture(o) ==
    \E k \in 1..Len(lectures) :
        LET op == [IdleOp EXCEPT !.kind = "removeLecture", !.target = lectures[k].id,
                                 !.item = lectures[k], !.pc = "stored",
                                 !.log = <<[call |-> "cancel", id |-> LectureId(lectures[k].id),
                                            item |-> lectures[k].id]>>]
        IN  /\ CanStart(o)
            /\ started' = started + 1
            /\ \E failed \in SUBSET {LectureId(op.target)} :
                  /\ notifs' = CancelSome({LectureId(op.target)}, failed)
                  /\ Goes(o, [op EXCEPT !.failed = failed])
            /\ UNCHANGED <<trigVars, perm, nextNid, reminderLeadTime, routineVars, lectureVars>>

\* setReminderLeadTime(mins) from the settings screen: the state and setSetting
SetReminderLeadTime(o) ==
    \E mins \in LEAD_TIMES :
        /\ mins # reminderLeadTime
        /\ CanStart(o)
        /\ started' = started + 1
        /\ reminderLeadTime' = mins
        /\ Goes(o, [IdleOp EXCEPT !.kind = "setReminderLeadTime", !.lead = mins, !.pc = "stored"])
        /\ UNCHANGED <<trigVars, serviceVars, routineVars, lectureVars>>

\* the call of the store has settled: the handler goes on up to its next await
AfterStore(o) ==
    LET op == ops[o]
        all == getAllLectures(lectureDb)
        found == SelectSeq(all, LAMBDA l : l.id = op.target)
        enabledOnes == SelectSeq(all, LAMBDA l : l.reminderEnabled = 1)
        cancelled == [op EXCEPT !.log = Append(@, [call |-> "cancel", id |-> LectureId(op.target),
                                                  item |-> op.target])]
    IN  /\ op.pc = "stored"
        /\ UNCHANGED <<trigVars, perm, nextNid, reminderLeadTime, routineVars, lectureCounter,
                       started>>
        /\ CASE op.kind \in {"addLecture", "editLecture"} ->
                    \* refresh, then schedule or cancel by the lecture's flag
                    /\ lectures' = all
                    /\ UNCHANGED lectureDb
                    /\ IF op.item.reminderEnabled = 1
                       THEN Goes(o, [op EXCEPT !.pc = "lperm"]) /\ UNCHANGED notifs
                       ELSE IF op.kind = "editLecture"
                       THEN \E failed \in SUBSET {LectureId(op.target)} :
                                /\ notifs' = CancelSome({LectureId(op.target)}, failed)
                                /\ ReturnLecture(o, [cancelled EXCEPT !.failed = failed])
                       ELSE UNCHANGED notifs /\ ReturnLecture(o, op)
             [] op.kind = "importJson" ->
                    /\ lectures' = all
                    /\ UNCHANGED <<lectureDb, notifs>>
                    /\ Return(o, op, [title |-> "Imported"])
             [] op.kind = "toggleLectureReminder" ->
                    /\ lectures' = MapItem(lectures, op.target,
                            [reminderEnabled |-> IF op.want THEN 1 ELSE 0])
                    /\ UNCHANGED lectureDb
                    /\ IF Len(found) = 0 THEN UNCHANGED notifs /\ ReturnLecture(o, op)
                       ELSE IF op.want
                       THEN Goes(o, [op EXCEPT !.pc = "lperm", !.item = found[1]])
                            /\ UNCHANGED notifs
                       ELSE \E failed \in SUBSET {LectureId(op.target)} :
                                /\ notifs' = CancelSome({LectureId(op.target)}, failed)
                                /\ ReturnLecture(o, [cancelled EXCEPT !.failed = failed])
             [] op.kind = "removeLecture" ->
                    /\ UNCHANGED notifs
                    /\ ReturnLecture(o, op)
                    /\ IF Caught(op.failed) # {}
                       THEN UNCHANGED <<lectureDb, lectures>>
                       ELSE /\ lectureDb' = deleteLecture(lectureDb, op.target)
                            /\ lectures' = FilterOut(lectures, op.target)
             [] op.kind = "setReminderLeadTime" ->
                    /\ UNCHANGED <<lectureVars, notifs>>
                    /\ IF Len(enabledOnes) = 0 THEN Return(o, op, NoAlert)
                       ELSE Goes(o, [op EXCEPT !.pc = "lperm", !.item = enabledOnes[1],
                                               !.queue = Tail(enabledOnes)])

\* scheduleNotification after requestNotificationPermissions resolved: return
\* null, or issue the cancel of the lecture's identifier
LectureCancelStep(o) ==
    \E now \in {"granted", "denied"} :
        LET op == ops[o]
            trigger == lectureTrigger(op.item, op.lead)
        IN  /\ op.pc = "lperm"
            /\ perm' = now
            /\ UNCHANGED <<trigVars, nextNid, reminderLeadTime, routineVars, lectureVars, started>>
            /\ IF now = "denied"
               THEN /\ UNCHANGED notifs
                    /\ AfterLectureSchedule(o, [op EXCEPT !.refused = @ \cup {op.item.id}])
               ELSE IF trigger = Null
               THEN /\ UNCHANGED notifs
                    /\ AfterLectureSchedule(o, [op EXCEPT !.granted = @ \cup {op.item.id}])
               ELSE \E failed \in SUBSET {LectureId(op.item.id)} :
                    /\ notifs' = CancelSome({LectureId(op.item.id)}, failed)
                    /\ Goes(o, [op EXCEPT !.pc = "lsched", !.granted = @ \cup {op.item.id},
                                          !.failed = failed,
                                          !.log = Append(@, [call |-> "cancel",
                                                             id |-> LectureId(op.item.id),
                                                             item |-> op.item.id])])

\* scheduleNotification after its cancel resolved: the schedule call under the
\* lecture's identifier, replacing what is scheduled under it
LectureScheduleStep(o) ==
    LET op == ops[o]
        id == LectureId(op.item.id)
        logged == [op EXCEPT !.log = Append(@, [call |-> "schedule", id |-> id,
                                               item |-> op.item.id])]
    IN  /\ op.pc = "lsched"
        /\ notifs' = (id :> lectureTrigger(op.item, op.lead)) @@ notifs
        /\ AfterLectureSchedule(o, logged)
        /\ UNCHANGED <<trigVars, perm, nextNid, reminderLeadTime, routineVars, lectureVars, started>>

----------------------------------------------------------------------------
(* getWeeklyTrigger on its own: every call with a canonical day, a valid   *)
(* time and an offset                                                      *)

MaxOffsetDays == 2

TrigMinutes == {0, 5, 10, 30, 45, 59}

TrigTimes == {HHMM(h, m) : h \in 0..23, m \in TrigMinutes}


TrigOffsets == {0} \cup LEAD_TIMES \cup {d * 1440 + 30 : d \in 1..MaxOffsetDays}
                   \cup {d * 1440 : d \in 1..MaxOffsetDays}

InitTrigger ==
    /\ trigIn = Null
    /\ trigOut = Null
    /\ callIn = Null
    /\ callOut = Null
    /\ perm = "denied"
    /\ notifs = <<>>
    /\ nextNid = 1
    /\ reminderLeadTime = DEFAULT_LEAD
    /\ items = <<>>
    /\ routineStore = <<>>
    /\ nextItemId = 1
    /\ lectures = <<>>
    /\ lectureDb = <<>>
    /\ lectureCounter = 0
    /\ ops = <<>>
    /\ lastDone = IdleOp
    /\ started = 0

CallGetWeeklyTrigger ==
    \E day \in CanonicalDays, time \in TrigTimes, offset \in TrigOffsets :
        /\ trigIn = Null
        /\ trigIn' = [day |-> day, time |-> time, offset |-> offset]
        /\ trigOut' = getWeeklyTrigger(day, time, offset)
        /\ UNCHANGED <<callIn, callOut, appVars>>

NextTrigger == CallGetWeeklyTrigger

SpecTrigger == InitTrigger /\ [][NextTrigger]_vars

\* the minute of the week, 0 = Sunday 00:00, the claim names
MinuteOfWeek(day, time, offset) ==
    (getDayNumber(day) * 1440 + DecVal(SubSeq(time, 1, 2)) * 60
        + DecVal(SubSeq(time, 4, 5)) - offset) % 10080

\* C1: for a canonical day, a valid HH:MM time and an offset >= 0 (longer
\* than a day included) getWeeklyTrigger returns the repeating trigger whose
\* (weekday - 1, hour, minute) is the minute of the week
\* (dayIndex*1440 + minutes(time) - offset) mod 10080, with hour in 0..23 and
\* minute in 0..59; (Monday, 09:00, 15) gives (2, 8, 45) and
\* (Sunday, 00:10, 30) gives (7, 23, 40).
C1_WeeklyTrigger ==
    trigIn # Null =>
        /\ trigOut # Null
        /\ trigOut.weekday \in 1..7
        /\ trigOut.hour \in 0..23
        /\ trigOut.minute \in 0..59
        /\ trigOut.repeats = TRUE
        /\ (trigOut.weekday - 1) * 1440 + trigOut.hour * 60 + trigOut.minute
              = MinuteOfWeek(trigIn.day, trigIn.time, trigIn.offset)
        /\ (trigIn = [day |-> "Monday", time |-> HHMM(9, 0), offset |-> 15]
              => <<trigOut.weekday, trigOut.hour, trigOut.minute>> = <<2, 8, 45>>)
        /\ (trigIn = [day |-> "Sunday", time |-> HHMM(0, 10), offset |-> 30]
              => <<trigOut.weekday, trigOut.hour, trigOut.minute>> = <<7, 23, 40>>)

\* a call whose offset is longer than a day and crosses the start of the week
C1_Witness ==
    /\ trigIn # Null
    /\ trigIn = [day |-> "Sunday", time |-> HHMM(0, 10), offset |-> 2 * 1440 + 30]
    /\ trigOut = [weekday |-> 5, hour |-> 23, minute |-> 40, repeats |-> TRUE]

----------------------------------------------------------------------------
(* The app: handlers of the routine screen in flight together *)

\* the rows of the imports the app run chooses from
AppRows == {GoodRow(<<"y", "e", "s">>), GoodRow(<<"n", "o">>), OnlyDayRow}

MaxAppRows == 2

AppRowSeqs == UNION {[1..n -> AppRows] : n \in 1..MaxAppRows}

\* the arrays the JSON imports of the app run choose from
MaxJsonItems == 2

JsonInputs ==
    { <<GoodElement>>, <<GoodElement, FundayElement>>, <<NoRoomElement>>, <<Null>>,
      <<LateStartElement>> }
      \cup { raw \in [1..MaxJsonItems -> {GoodElement, LowerDayElement}] : TRUE }

\* a lecture with its reminder on, left by an earlier run of the app:
\* addLecture, then toggleLectureReminder with permission granted
SeedLecture == FormLecture(1, MondayForm, 1)

\* the app starts on an empty installation, or on one holding SeedLecture
Init ==
    /\ trigIn = Null
    /\ trigOut = Null
    /\ callIn = Null
    /\ callOut = Null
    /\ nextNid = 1
    /\ reminderLeadTime = DEFAULT_LEAD
    /\ items = <<>>
    /\ routineStore = <<>>
    /\ nextItemId = 1
    /\ ops = [o \in Slots |-> IdleOp]
    /\ lastDone = IdleOp
    /\ started = 0
    /\ \/ /\ perm = "denied"
          /\ notifs = <<>>
          /\ lectures = <<>>
          /\ lectureDb = <<>>
          /\ lectureCounter = 0
       \/ /\ perm = "granted"
          /\ notifs = (LectureId(1) :> lectureTrigger(SeedLecture, DEFAULT_LEAD))
          /\ lectures = <<SeedLecture>>
          /\ lectureDb = <<SeedLecture>>
          /\ lectureCounter = 1

Next ==
    \/ \E o \in Slots :
            \/ SaveItemAdd(o)
            \/ SaveItemEdit(o)
            \/ ToggleDone(o)
            \/ ToggleReminder(o)
            \/ DeleteItem(o)
            \/ ConfirmDelete(o)
            \/ DeleteAllRoutine(o)
            \/ ReadRoutine(o)
            \/ AfterCancel(o)
            \/ PermStep(o)
            \/ SchedStep(o)
            \/ SchedReject(o)
            \/ \E rows \in AppRowSeqs : ImportRows(o, rows)
            \/ AddLecture(o)
            \/ EditLecture(o)
            \/ ToggleLectureReminder(o)
            \/ RemoveLecture(o)
            \/ SetReminderLeadTime(o)
            \/ AfterStore(o)
            \/ LectureCancelStep(o)
            \/ LectureScheduleStep(o)
            \/ \E raw \in JsonInputs : ImportJson(o, raw)
    \/ FocusRoutine

Spec == Init /\ [][Next]_vars

----------------------------------------------------------------------------
(* The imports of the routine screen on their own, over rows of every kind *)

MaxImportRows == 2

ImportRowKinds ==
    { GoodRow(<<>>), BlankRow, OnlyBadDayRow, OnlyBadTimeRow, OnlyDayRow, NoTitleRow,
      BadStartRow, BadOrderRow }

ImportRowSeqs == UNION {[1..n -> ImportRowKinds] : n \in 1..MaxImportRows}

InitImport == Init /\ lectures = <<>>

NextImport == \E o \in Slots, rows \in ImportRowSeqs : ImportRows(o, rows)

SpecImport == InitImport /\ [][NextImport]_vars

----------------------------------------------------------------------------
(* Document import: the text of a PDF, import.tsx *)

\* String.fromCharCode(32) .. String.fromCharCode(126); the grave accent
\* (96) is written as an apostrophe
Ascii == << " ", "!", "\"", "#", "$", "%", "&", "'", "(", ")", "*", "+", ",", "-", ".", "/",
           "0", "1", "2", "3", "4", "5", "6", "7", "8", "9", ":", ";", "<", "=", ">", "?",
           "@", "A", "B", "C", "D", "E", "F", "G", "H", "I", "J", "K", "L", "M", "N", "O",
           "P", "Q", "R", "S", "T", "U", "V", "W", "X", "Y", "Z", "[", "\\", "]", "^", "_",
           "'", "a", "b", "c", "d", "e", "f", "g", "h", "i", "j", "k", "l", "m", "n", "o",
           "p", "q", "r", "s", "t", "u", "v", "w", "x", "y", "z", "{", "|", "}", "~" >>

\* String.fromCharCode(code): a control character is written "\n" (both are
\* control characters to normalizeTextToken, which every decoded text goes
\* through); codes above 126 are not among the texts of the model
CharOf(code) == IF code \in 32..126 THEN Ascii[code - 31] ELSE "\n"

\* value.replace(/[\u0000-\u001f]/g, ' ').replace(/\s+/g, ' ').trim()
RECURSIVE CollapseSpaces(_)
CollapseSpaces(s) ==
    IF Len(s) = 0 THEN s
    ELSE IF IsSpace(s[1])
         THEN (IF Len(s) > 1 /\ IsSpace(s[2]) THEN <<>> ELSE <<" ">>) \o CollapseSpaces(Tail(s))
    ELSE <<s[1]>> \o CollapseSpaces(Tail(s))

normalizeTextToken(value) == Trim(CollapseSpaces(value))

\* parseInt(s, base) of digits of that base
RECURSIVE RadixVal(_, _)
RadixVal(s, base) ==
    LET hex == <<"a", "b", "c", "d", "e", "f">>
        c == LowerChar(s[Len(s)])
        v == IF IsDigit(c) THEN DigitVal(c) ELSE 9 + (CHOOSE i \in 1..6 : hex[i] = c)
    IN  IF Len(s) = 0 THEN 0 ELSE base * RadixVal(SubSeq(s, 1, Len(s) - 1), base) + v

IsOctal(c) == c \in {"0", "1", "2", "3", "4", "5", "6", "7"}

\* decodePdfLiteralString: the escapes of a literal string resolved
RECURSIVE decodePdfLiteralString(_)
decodePdfLiteralString(raw) ==
    LET n == IF Len(raw) >= 3 /\ IsOctal(raw[3])
             THEN (IF Len(raw) >= 4 /\ IsOctal(raw[4]) THEN 3 ELSE 2)
             ELSE 1
        escaped == CASE raw[2] = "n" -> "\n"
                     [] raw[2] = "r" -> "\r"
                     [] raw[2] = "t" -> "\t"
                     [] raw[2] \in {"b", "f"} -> CharOf(8)
                     [] OTHER -> raw[2]
    IN  IF Len(raw) = 0 THEN <<>>
        ELSE IF raw[1] # "\\" THEN <<raw[1]>> \o decodePdfLiteralString(Tail(raw))
        ELSE IF Len(raw) = 1 THEN <<>>
        ELSE IF IsOctal(raw[2])
             THEN <<CharOf(RadixVal(SubSeq(raw, 2, 1 + n), 8))>>
                      \o decodePdfLiteralString(SubSeq(raw, 2 + n, Len(raw)))
        ELSE <<escaped>> \o decodePdfLiteralString(SubSeq(raw, 3, Len(raw)))

IsHexDigit(c) == IsDigit(c) \/ LowerChar(c) \in {"a", "b", "c", "d", "e", "f"}

\* decodePdfHexString: the bytes of a hex string as characters, as UTF-16BE
\* after a FE FF mark
decodePdfHexString(hex) ==
    LET clean == SelectSeq(hex, IsHexDigit)
        padded == IF Len(clean) % 2 = 0 THEN clean ELSE clean \o <<"0">>
        bytes == [i \in 1..(Len(padded) \div 2) |-> RadixVal(SubSeq(padded, 2 * i - 1, 2 * i), 16)]
        marked == Len(bytes) >= 2 /\ bytes[1] = 254 /\ bytes[2] = 255
    IN  IF Len(clean) < 2 THEN <<>>
        ELSE IF marked
             THEN [i \in 1..((Len(bytes) - 2) \div 2) |->
                      CharOf(bytes[2 * i + 1] * 256 + bytes[2 * i + 2])]
        ELSE [i \in 1..Len(bytes) |-> CharOf(bytes[i])]

\* the sequences of ss one after the other
RECURSIVE Flatten(_)
Flatten(ss) == IF Len(ss) = 0 THEN <<>> ELSE Head(ss) \o Flatten(Tail(ss))

\* A document is a sequence of pieces: a stream ... endstream region, or
\* bytes outside every region.  A region records whether /FlateDecode stands
\* in the 500 characters before it (flate), whether its bytes are a zlib
\* stream (zlib), and the text blocks BT ... ET of its content; a block is
\* the sequence of its show operations.
StreamRegion(flate, zlib, blocks) ==
    [kind |-> "stream", flate |-> flate, zlib |-> zlib, blocks |-> blocks]

LooseBytes(blocks) == [kind |-> "loose", blocks |-> blocks]

\* [ ... ] TJ with its strings in order, ( ... ) Tj
ShowArray(parts) == [op |-> "TJ", parts |-> parts]

ShowString(raw) == [op |-> "Tj", raw |-> raw]

Literal(raw) == [kind |-> "literal", raw |-> raw]

HexString(raw) == [kind |-> "hex", raw |-> raw]

\* the text of one show operation: of an array its literal strings, then its
\* hex strings
ShowText(show) ==
    LET IsLiteral(p) == p.kind = "literal"
        IsHex(p) == p.kind = "hex"
        literals == SelectSeq(show.parts, IsLiteral)
        hexes == SelectSeq(show.parts, IsHex)
    IN  IF show.op = "TJ"
        THEN normalizeTextToken(
                 Flatten([i \in 1..Len(literals) |-> decodePdfLiteralString(literals[i].raw)])
                 \o Flatten([i \in 1..Len(hexes) |-> decodePdfHexString(hexes[i].raw)]))
        ELSE normalizeTextToken(decodePdfLiteralString(show.raw))

\* the tokens of one text block: of its arrays, then of its single strings
BlockTokens(block) ==
    LET IsArray(x) == x.op = "TJ"
        IsString(x) == x.op = "Tj"
        NonEmpty(t) == Len(t) > 0
        shows == SelectSeq(block, IsArray) \o SelectSeq(block, IsString)
    IN  SelectSeq([i \in 1..Len(shows) |-> ShowText(shows[i])], NonEmpty)

\* unzlibSync(streamBytes) throws
InflateFails(piece) == piece.kind = "stream" /\ piece.flate /\ ~piece.zlib

\* the tokens of one piece: none outside a region, none of a region that
\* fails to inflate (catch: continue), none of deflated bytes scanned as
\* they are
PieceTokens(piece) ==
    IF piece.kind # "stream" \/ InflateFails(piece) \/ (~piece.flate /\ piece.zlib) THEN <<>>
    ELSE Flatten([b \in 1..Len(piece.blocks) |-> BlockTokens(piece.blocks[b])])

\* an extraction without the try around unzlibSync
extractPdfTokensUncaught(pdf) ==
    [threw |-> \E i \in 1..Len(pdf) : InflateFails(pdf[i]),
     tokens |-> Flatten([i \in 1..Len(pdf) |-> PieceTokens(pdf[i])])]

\* extractPdfTokens: the tokens of the document; nothing it calls throws
\* past it
extractPdfTokens(pdf) ==
    [threw |-> FALSE, tokens |-> Flatten([i \in 1..Len(pdf) |-> PieceTokens(pdf[i])])]

----------------------------------------------------------------------------
(* Document import: the timetable, import.tsx *)

UpperChar(c) ==
    IF \E i \in 1..26 : LowerLetters[i] = c
    THEN UpperLetters[CHOOSE i \in 1..26 : LowerLetters[i] = c]
    ELSE c

\* s.toUpperCase()
ToUpper(s) == [i \in 1..Len(s) |-> UpperChar(s[i])]

\* sub occurs in s at position k
OccursAt(s, sub, k) == k >= 1 /\ k + Len(sub) - 1 <= Len(s) /\ SubSeq(s, k, k + Len(sub) - 1) = sub

Contains(s, sub) == \E k \in 1..Len(s) : OccursAt(s, sub, k)

DAYS ==
    << <<"M", "o", "n", "d", "a", "y">>,
       <<"T", "u", "e", "s", "d", "a", "y">>,
       <<"W", "e", "d", "n", "e", "s", "d", "a", "y">>,
       <<"T", "h", "u", "r", "s", "d", "a", "y">>,
       <<"F", "r", "i", "d", "a", "y">>,
       <<"S", "a", "t", "u", "r", "d", "a", "y">>,
       <<"S", "u", "n", "d", "a", "y">> >>

SECTION_ORDER ==
    << [semester |-> 1, section |-> <<"M", "1">>],
       [semester |-> 1, section |-> <<"M", "2">>],
       [semester |-> 2, section |-> <<"M", "1">>],
       [semester |-> 2, section |-> <<"M", "2">>],
       [semester |-> 3, section |-> <<"M", "1">>],
       [semester |-> 3, section |-> <<"M", "2">>],
       [semester |-> 4, section |-> <<"A">>],
       [semester |-> 4, section |-> <<"B">>],
       [semester |-> 5, section |-> <<"A">>],
       [semester |-> 5, section |-> <<"B">>] >>

SectionTokens == {<<"M", "1">>, <<"M", "2">>, <<"A">>, <<"B">>}

\* parseSemesterNumber gives null: no semester (falsy, like 0)
NoSemester == 0

\* parseSemesterNumber: the first of the digits 1 to 8 in value
parseSemesterNumber(value) ==
    LET hits == {i \in 1..Len(value) : IsDigit(value[i]) /\ DigitVal(value[i]) \in 1..8}
    IN  IF hits = {} THEN NoSemester
        ELSE DigitVal(value[CHOOSE i \in hits : \A j \in hits : i <= j])

\* the character U+2013, which a TLA+ string cannot hold: an element of its
\* own in a text
EnDash == "--"

\* normalizeTime: HH:MM of h:mm with its own or the fallback meridiem; any
\* other text trimmed
normalizeTime(value, fallbackMeridiem) ==
    LET v == Trim(value)
        marked == HasMeridiem(v)
        body == IF marked THEN Trim(SubSeq(v, 1, Len(v) - 2)) ELSE v
        parts == SplitColon(body)
        matches == /\ Len(parts) = 2
                   /\ Len(parts[1]) \in 1..2 /\ AllDigits(parts[1])
                   /\ Len(parts[2]) = 2 /\ AllDigits(parts[2])
        mer == IF marked THEN ToUpper(SubSeq(v, Len(v) - 1, Len(v))) ELSE fallbackMeridiem
        h0 == DecVal(parts[1])
        h == IF mer = <<"A", "M">> THEN (IF h0 = 12 THEN 0 ELSE h0)
             ELSE (IF h0 < 12 THEN h0 + 12 ELSE h0)
    IN  IF matches THEN HHMM(h, DecVal(parts[2])) ELSE v

\* /^\d{1,2}:\d{2}(?:[AP]M)?$/i
IsSlotTime(t) ==
    LET p == SplitColon(IF HasMeridiem(t) THEN SubSeq(t, 1, Len(t) - 2) ELSE t)
    IN  /\ Len(p) = 2 /\ Len(p[1]) \in 1..2 /\ AllDigits(p[1])
        /\ Len(p[2]) = 2 /\ AllDigits(p[2])

\* the longest slot time that ends s, or the empty string
TimeAtEnd(s) ==
    LET starts == {k \in 1..Len(s) : IsSlotTime(SubSeq(s, k, Len(s)))}
    IN  IF starts = {} THEN <<>>
        ELSE SubSeq(s, CHOOSE k \in starts : \A j \in starts : k <= j, Len(s))

\* the longest slot time that starts s, or the empty string
TimeAtStart(s) ==
    LET ends == {k \in 1..Len(s) : IsSlotTime(SubSeq(s, 1, k))}
    IN  IF ends = {} THEN <<>>
        ELSE SubSeq(s, 1, CHOOSE k \in ends : \A j \in ends : j <= k)

\* the first position from k on where s holds no digit (no white space),
\* Len(s) + 1 when there is none
SkipDigits(s, k) ==
    LET stops == {j \in k..Len(s) : ~IsDigit(s[j])}
    IN  IF stops = {} THEN Len(s) + 1 ELSE CHOOSE j \in stops : \A x \in stops : j <= x

SkipSpaces(s, k) ==
    LET stops == {j \in k..Len(s) : ~IsSpace(s[j])}
    IN  IF stops = {} THEN Len(s) + 1 ELSE CHOOSE j \in stops : \A x \in stops : j <= x

\* /S-\d+\s*\(([^)]+)\)/i matches token at k: the text between its brackets
\* without white space, or the empty string
MarkerAt(token, k) ==
    LET o == SkipSpaces(token, SkipDigits(token, k + 2))
        closes == {c \in (o + 2)..Len(token) : token[c] = ")"}
        NotSpace(c) == ~IsSpace(c)
    IN  IF /\ OccursAt(ToLower(token), <<"s", "-">>, k)
           /\ k + 2 <= Len(token) /\ IsDigit(token[k + 2])
           /\ o <= Len(token) /\ token[o] = "("
           /\ closes # {} /\ token[o + 1] # ")"
        THEN SelectSeq(SubSeq(token, o + 1, (CHOOSE c \in closes : \A y \in closes : c <= y) - 1),
                       NotSpace)
        ELSE <<>>

\* start and end of a slot with the meridiem of the end, or AM from 8 on and
\* PM before, where the start has none
SlotOf(startRaw, endRaw) ==
    LET fallback == IF HasMeridiem(endRaw) THEN ToUpper(SubSeq(endRaw, Len(endRaw) - 1, Len(endRaw)))
                    ELSE IF DecVal(SplitColon(startRaw)[1]) >= 8 THEN <<"A", "M">>
                    ELSE <<"P", "M">>
    IN  [start |-> normalizeTime(startRaw, fallback), end |-> normalizeTime(endRaw, fallback)]

\* the first start-end range in raw, or null
SlotIn(raw) ==
    LET dashes == {k \in 1..Len(raw) :
                      /\ raw[k] \in {"-", EnDash}
                      /\ TimeAtEnd(SubSeq(raw, 1, k - 1)) # <<>>
                      /\ TimeAtStart(SubSeq(raw, k + 1, Len(raw))) # <<>>}
        dash == CHOOSE k \in dashes : \A j \in dashes : k <= j
    IN  IF dashes = {} THEN Null
        ELSE SlotOf(TimeAtEnd(SubSeq(raw, 1, dash - 1)), TimeAtStart(SubSeq(raw, dash + 1, Len(raw))))

\* parseSlotRange: the start and end of the first S-n(start-end) marker in
\* token, or null
parseSlotRange(token) ==
    LET marks == {k \in 1..Len(token) : MarkerAt(token, k) # <<>>}
    IN  IF marks = {} THEN Null
        ELSE SlotIn(MarkerAt(token, CHOOSE k \in marks : \A j \in marks : k <= j))

defaultSlots ==
    << [start |-> <<"0", "8", ":", "0", "0">>, end |-> <<"0", "9", ":", "2", "0">>],
       [start |-> <<"0", "9", ":", "3", "0">>, end |-> <<"1", "0", ":", "5", "0">>],
       [start |-> <<"1", "1", ":", "0", "0">>, end |-> <<"1", "2", ":", "2", "0">>],
       [start |-> <<"1", "2", ":", "3", "0">>, end |-> <<"1", "3", ":", "5", "0">>],
       [start |-> <<"1", "4", ":", "0", "0">>, end |-> <<"1", "5", ":", "2", "0">>],
       [start |-> <<"1", "5", ":", "3", "0">>, end |-> <<"1", "6", ":", "5", "0">>] >>

\* a slot table that takes the markers found when they are fewer than six
SlotTimesFound(tokens) ==
    LET IsSlot(x) == x # Null
        found == SelectSeq([i \in 1..Len(tokens) |-> parseSlotRange(tokens[i])], IsSlot)
    IN  IF Len(found) >= 1 THEN SubSeq(found, 1, IF Len(found) > 6 THEN 6 ELSE Len(found))
        ELSE defaultSlots

\* the slot table: the first six markers when there are six, else the default
SlotTimes(tokens) ==
    LET IsSlot(x) == x # Null
        found == SelectSeq([i \in 1..Len(tokens) |-> parseSlotRange(tokens[i])], IsSlot)
    IN  IF Len(found) >= 6 THEN SubSeq(found, 1, 6) ELSE defaultSlots

controlTokens ==
    { <<"S", "e", "c", "t", "i", "o", "n">>,
      <<"S", "l", "o", "t", "s">>,
      <<"S", "e", "m", "e", "s", "t", "e", "r">>,
      <<"T", "i", "m", "e", " ", "T", "a", "b", "l", "e", " ", "-", " ", "S", "p", "r", "i", "n", "g", " ", "2", "0", "2", "6", " ", "-", " ", "B", "S", " ", "C", "o", "m", "p", "u", "t", "e", "r", " ", "S", "c", "i", "e", "n", "c", "e", " ", "(", "M", "o", "r", "n", "i", "n", "g", ")">> }
        \cup Range(DAYS) \cup SectionTokens
        \cup { <<"1", "s", "t", " ", "S", "e", "m", "e", "s", "t", "e", "r">>,
          <<"2", "n", "d", " ", "S", "e", "m", "e", "s", "t", "e", "r">>,
          <<"3", "r", "d", " ", "S", "e", "m", "e", "s", "t", "e", "r">>,
          <<"4", "t", "h", " ", "S", "e", "m", "e", "s", "t", "e", "r">>,
          <<"5", "t", "h", " ", "S", "e", "m", "e", "s", "t", "e", "r">>,
          <<"6", "t", "h", " ", "S", "e", "m", "e", "s", "t", "e", "r">>,
          <<"7", "t", "h", " ", "S", "e", "m", "e", "s", "t", "e", "r">>,
          <<"8", "t", "h", " ", "S", "e", "m", "e", "s", "t", "e", "r">> }

\* the first loop of parseTimetablePdf: each weekday marker closes a segment
\* that holds the tokens read since the marker before it
RECURSIVE DaySegments(_, _)
DaySegments(tokens, pending) ==
    IF Len(tokens) = 0 THEN <<>>
    ELSE IF Head(tokens) \in Range(DAYS)
         THEN <<[day |-> Head(tokens), tokens |-> pending]>> \o DaySegments(Tail(tokens), <<>>)
    ELSE DaySegments(Tail(tokens), Append(pending, Head(tokens)))

\* /(CR-|CS Lab|DLD Lab|Lab|Room|Floor)/i.test(room)
IsRoom(room) ==
    \E sub \in {<<"c", "r", "-">>, <<"l", "a", "b">>, <<"r", "o", "o", "m">>,
                <<"f", "l", "o", "o", "r">>} : Contains(ToLower(room), sub)

\* /^(Mr\.|Ms\.|Dr\.)/i.test(teacherCandidate)
IsTeacher(t) ==
    \E title \in {<<"m", "r", ".">>, <<"m", "s", ".">>, <<"d", "r", ".">>} :
        OccursAt(ToLower(t), title, 1)

\* /Semester$/i.test(token)
IsSemesterLabel(token) ==
    OccursAt(ToLower(token), <<"s", "e", "m", "e", "s", "t", "e", "r">>, Len(token) - 7)

\* a filter that lets every semester and section through
PassesAlways(targetSemester, targetSection, currentSemester, currentSection) == TRUE

\* targetSemester === currentSemester && (!targetSection || targetSection === currentSection)
PassesFilter(targetSemester, targetSection, currentSemester, currentSection) ==
    targetSemester = currentSemester /\ (Len(targetSection) = 0 \/ targetSection = currentSection)

LectureKey(l) ==
    l.day \o <<"|">> \o l.startTime \o <<"|">> \o l.endTime \o <<"|">> \o l.subject
        \o <<"|">> \o l.room \o <<"|">> \o l.teacher

\* a push that does not look at the keys seen
PushAlways(list, lecture) == Append(list, lecture)

\* if (!seen.has(key)) { seen.add(key); lectures.push(lecture) }
PushUnseen(list, lecture) ==
    IF \E k \in 1..Len(list) : LectureKey(list[k]) = LectureKey(lecture) THEN list
    ELSE Append(list, lecture)

\* a slot index that moves on only for a pair that passed the filter
SlotAfterMatch(slotIndex, passes) == IF passes THEN slotIndex + 1 ELSE slotIndex

\* slotIndex += 1, after the if statement of the filter: for a pair that
\* passed it and for one that did not
SlotAfterPair(slotIndex, passes) == slotIndex + 1

\* the state of the second loop at the start of a segment
SegmentStart ==
    [i |-> 0, currentSemester |-> 0, currentSection |-> <<>>, sectionOrderIndex |-> 0,
     slotIndex |-> 0]

\* the for statements: past the end of a segment the next one starts, and
\* past the last segment the function returns
RECURSIVE LoopHead(_)
LoopHead(st) ==
    IF st.seg > Len(st.segments) THEN [pc |-> "done"] @@ st
    ELSE IF st.i >= Len(st.segments[st.seg].tokens)
         THEN LoopHead([seg |-> st.seg + 1] @@ SegmentStart @@ st)
    ELSE st

\* one turn of the inner loop of parseTimetablePdf, on token i of the segment
ScanToken(st) ==
    LET segment == st.segments[st.seg]
        At(k) == IF k + 1 <= Len(segment.tokens) THEN segment.tokens[k + 1] ELSE <<>>
        token == At(st.i)
        semesterNum == parseSemesterNumber(token)
        startsAt == st.sectionOrderIndex
        later == {x \in (startsAt + 1)..Len(SECTION_ORDER) : SECTION_ORDER[x].section = token}
        resolvedIndex ==
            IF startsAt < Len(SECTION_ORDER) /\ SECTION_ORDER[startsAt + 1].section = token
            THEN startsAt
            ELSE IF later # {} THEN (CHOOSE x \in later : \A y \in later : x <= y) - 1
            ELSE startsAt
        room == At(st.i + 1)
        hasTeacher == IsTeacher(At(st.i + 2))
        teacher == IF hasTeacher THEN At(st.i + 2) ELSE <<"T", "B", "A">>
        slot == st.slotTimes[st.slotIndex + 1]
        lecture == [day |-> segment.day, subject |-> token, room |-> room, teacher |-> teacher,
                    startTime |-> slot.start, endTime |-> slot.end, reminderEnabled |-> 0]
        next == [i |-> st.i + 1]
    IN  IF semesterNum # NoSemester /\ IsSemesterLabel(token)
        THEN [currentSemester |-> semesterNum, currentSection |-> <<>>, slotIndex |-> 0,
              became |-> st.became \cup {semesterNum}] @@ next @@ st
        ELSE IF token \in SectionTokens
        THEN [currentSemester |->
                  IF resolvedIndex < Len(SECTION_ORDER)
                  THEN SECTION_ORDER[resolvedIndex + 1].semester ELSE st.currentSemester,
              became |-> st.became \cup
                  {IF resolvedIndex < Len(SECTION_ORDER)
                   THEN SECTION_ORDER[resolvedIndex + 1].semester ELSE st.currentSemester},
              currentSection |-> token, slotIndex |-> 0,
              sectionOrderIndex |->
                  IF resolvedIndex + 1 < Len(SECTION_ORDER) THEN resolvedIndex + 1
                  ELSE Len(SECTION_ORDER)] @@ next @@ st
        ELSE IF Len(room) = 0 \/ st.slotIndex >= Len(st.slotTimes) THEN next @@ st
        ELSE IF token \in controlTokens \/ room \in controlTokens THEN next @@ st
        ELSE IF ~IsRoom(room) THEN next @@ st
        ELSE [lectures |->
                  IF PassesFilter(st.targetSemester, st.targetSection,
                                  st.currentSemester, st.currentSection)
                  THEN PushUnseen(st.lectures, lecture) ELSE st.lectures,
              slotIndex |-> SlotAfterPair(st.slotIndex,
                                PassesFilter(st.targetSemester, st.targetSection,
                                             st.currentSemester, st.currentSection)),
              i |-> st.i + (IF hasTeacher THEN 3 ELSE 2)] @@ st

\* parseTimetablePdf up to its second loop; extracted records whether
\* extractPdfTokens was called, became the semesters that were current
parseTimetablePdf(pdf, semesterInput, sectionInput) ==
    LET targetSemester == parseSemesterNumber(semesterInput)
        tokens == extractPdfTokens(pdf).tokens
        st == [pc |-> "scan", threw |-> FALSE, extracted |-> TRUE,
               targetSemester |-> targetSemester,
               targetSection |-> ToUpper(Trim(sectionInput)),
               slotTimes |-> SlotTimes(tokens), segments |-> DaySegments(tokens, <<>>),
               seg |-> 1, lectures |-> <<>>, became |-> {}] @@ SegmentStart
    IN  IF targetSemester = NoSemester
        THEN [pc |-> "done", threw |-> TRUE, extracted |-> FALSE,
              targetSemester |-> targetSemester, targetSection |-> <<>>,
              slotTimes |-> <<>>, segments |-> <<>>, seg |-> 1, lectures |-> <<>>,
              became |-> {}] @@ SegmentStart
        ELSE IF Len(tokens) = 0 THEN [pc |-> "done", slotTimes |-> <<>>] @@ st
        ELSE LoopHead(st)

----------------------------------------------------------------------------
(* The functions of the tabular import on their own: one call each, over   *)
(* cells of every type and texts of every clock shape                      *)

MaxHour == 99

ClockHours == {0, 7, 12, 13, 23, 24, 25, MaxHour}

ClockMinutes == {0, 30, 59, 60, 75}

HourTexts == {DecStr(h) : h \in ClockHours} \cup {Pad2(h) : h \in ClockHours}

MinuteTexts == {<<>>} \cup {<<":">> \o Pad2(m) : m \in ClockMinutes}

SecondTexts == {<<>>, <<":", "0", "0">>}

MeridiemTexts == {<<>>, <<"a", "m">>, <<"P", "M">>, <<" ", "A", "M">>, <<" ", "p", "m">>}

\* H, H:MM and H:MM:SS, bare or followed by AM or PM
ClockTexts ==
    {h \o m \o sec \o mer :
        h \in HourTexts, m \in MinuteTexts, sec \in SecondTexts, mer \in MeridiemTexts}

NumberTexts ==
    { InfinityText, <<"-">> \o InfinityText, <<"+">> \o InfinityText,
      <<"1", "e", "9", "9", "9">>, <<"1", "e", "3">>, <<"2", "e", "3", "0", "8">>,
      <<"1", "E", "-", "3">>, <<"0", ".", "5">>, <<"-", "0", ".", "5">>, <<"9">>,
      <<"2", "4">>, <<"N", "a", "N">> }

OtherTexts == {<<>>, <<" ">>, <<"n", "o", "o", "n">>, <<"9", ".", "3", "0", " ", "a", "m">>}

TimeNumbers ==
    { 0, NumScale \div 2, 9 * NumScale, 23 * NumScale, 24 * NumScale, 0 - NumScale,
      0 - (NumScale \div 4), 2000 * NumScale + (3 * NumScale) \div 8 }

TimeCells ==
    {StrCell(s) : s \in ClockTexts \cup NumberTexts \cup OtherTexts}
        \cup {NumCell(n) : n \in TimeNumbers}
        \cup {NullCell, NaNCell, InfCell(FALSE), InfCell(TRUE), InvalidDate,
              BoolCell(TRUE), DateCell(0, 0), DateCell(9, 5), DateCell(23, 59)}

InitCalls == InitTrigger

CallParseSpreadsheetTime ==
    \E cell \in TimeCells :
        /\ callIn = Null
        /\ callIn' = [fn |-> "parseSpreadsheetTime", value |-> cell]
        /\ callOut' = parseSpreadsheetTime(cell)
        /\ UNCHANGED <<trigIn, trigOut, appVars>>

\* the headers of one sheet: title, day, start and end, as users write them
HeaderStyles ==
    { << <<"T", "i", "t", "l", "e">>, <<"D", "a", "y">>, <<"S", "t", "a", "r", "t">>,
         <<"E", "n", "d">> >>,
      << <<"A", "C", "T", "I", "V", "I", "T", "Y">>, <<"W", "e", "e", "k", "-", "D", "a", "y">>,
         <<"s", "t", "a", "r", "t", "_", "t", "i", "m", "e">>,
         <<"E", "n", "d", " ", "T", "i", "m", "e">> >>,
      << <<"t", "a", "s", "k">>, <<"w", "e", "e", "k", "d", "a", "y">>,
         <<"S", "t", "a", "r", "t", "T", "i", "m", "e">>, <<"e", "n", "d">> >> }

\* weekday cells, each with the day it stands for
DayTexts ==
    { <<<<"M", "o", "n">>, "Monday">>, <<<<"T", "U", "E", "S", "D", "A", "Y">>, "Tuesday">>,
      <<<<" ", "t", "h", "u", "r", "s", " ">>, "Thursday">>, <<<<"s", "U", "n">>, "Sunday">> }

\* a 12-hour time as written: the hour, the minute unless the hour is bare,
\* AM or PM
ClockSpecs ==
    {c \in [h : {1, 7, 8, 12}, m : {0, 30}, bare : BOOLEAN, pm : BOOLEAN] : c.bare => c.m = 0}

ClockSpecText(c) ==
    DecStr(c.h) \o (IF c.bare THEN <<>> ELSE <<":">> \o Pad2(c.m))
        \o (IF c.pm THEN <<" ", "P", "M">> ELSE <<"a", "m">>)

StyledRow(hs, title, day, start, end) ==
    << <<hs[1], Cell(title)>>, <<hs[2], Cell(day)>>, <<hs[3], Cell(start)>>,
       <<hs[4], Cell(end)>> >>

CallParseImportedRows ==
    \E hs \in HeaderStyles, d \in DayTexts, st \in ClockSpecs, en \in ClockSpecs :
        /\ callIn = Null
        /\ callIn' = [fn |-> "parseImportedRows", day |-> d[2], start |-> st, end |-> en,
                      rows |-> <<StyledRow(hs, <<"G", "y", "m">>, d[1],
                                           ClockSpecText(st), ClockSpecText(en))>>]
        /\ callOut' = parseImportedRows(callIn'.rows)
        /\ UNCHANGED <<trigIn, trigOut, appVars>>

MaxMinutes == 2000

\* every valid zero-padded HH:MM
ValidTimes == {HHMM(h, m) : h \in 0..23, m \in 0..59}

\* timeToMinutes, then toHHMM of its result
CallTimeToMinutes ==
    \E t \in ValidTimes :
        /\ callIn = Null
        /\ callIn' = [fn |-> "timeToMinutes", t |-> t]
        /\ callOut' = [minutes |-> timeToMinutes(t), text |-> toHHMM(timeToMinutes(t))]
        /\ UNCHANGED <<trigIn, trigOut, appVars>>

\* toHHMM, then timeToMinutes of its result
CallToHHMM ==
    \E m \in (0 - MaxMinutes)..MaxMinutes :
        /\ callIn = Null
        /\ callIn' = [fn |-> "toHHMM", totalMinutes |-> m]
        /\ callOut' = [text |-> toHHMM(m), minutes |-> timeToMinutes(toHHMM(m))]
        /\ UNCHANGED <<trigIn, trigOut, appVars>>

NextCalls ==
    \/ CallParseSpreadsheetTime
    \/ CallParseImportedRows
    \/ CallTimeToMinutes
    \/ CallToHHMM

SpecCalls == InitCalls /\ [][NextCalls]_vars

\* the last call was one of fn
Called(fn) == callIn # Null /\ callIn.fn = fn

----------------------------------------------------------------------------
(* The document import on its own *)

MaxPieces == 3

TextMonday == ShowString(<<"M", "o", "n", "d", "a", "y">>)

\* [(O) <53>] TJ and (CR\0551) Tj: OS, CR-1
TextCourse == <<ShowString(<<"C", "R", "\\", "0", "5", "5", "1">>), ShowArray(<<HexString(<<"5", "3">>), Literal(<<"O">>)>>)>>

PdfPieces ==
    { StreamRegion(FALSE, FALSE, << <<TextMonday>> >>),
      StreamRegion(TRUE, TRUE, <<TextCourse>>),
      StreamRegion(TRUE, FALSE, << <<ShowString(<<"l", "o", "s", "t">>)>> >>),
      StreamRegion(FALSE, TRUE, << <<ShowString(<<"p", "a", "c", "k", "e", "d">>)>> >>),
      StreamRegion(FALSE, FALSE, << <<ShowString(<<" ", "\\", "n", " ">>)>>, <<>> >>),
      LooseBytes(<< <<ShowString(<<"T", "u", "e", "s", "d", "a", "y">>)>> >>) }

PdfDocuments == UNION {[1..n -> PdfPieces] : n \in 0..MaxPieces}

InitPdf == InitTrigger

CallExtractPdfTokens ==
    \E pdf \in PdfDocuments :
        /\ callIn = Null
        /\ callIn' = [fn |-> "extractPdfTokens", pdf |-> pdf]
        /\ callOut' = extractPdfTokens(pdf)
        /\ UNCHANGED <<trigIn, trigOut, appVars>>

MaxBlocks == 3

\* the label of a semester and one course more than the slot table has slots
SevenCourses ==
    <<<<"5", "t", "h", " ", "S", "e", "m", "e", "s", "t", "e", "r">>>>
        \o [n \in 1..14 |-> IF n % 2 = 1 THEN <<"O", "S">> ELSE <<"C", "R", "-", "1">>]

\* the slot row of a timetable, as the literal strings of the document: six
\* markers in the order of the day, written without AM or PM
MorningSlots ==
    << <<"S", "-", "1", " ", "\\", "(", "8", ":", "0", "0", "-", "9", ":", "2", "0", "\\", ")">>,
       <<"S", "-", "2", " ", "\\", "(", "9", ":", "3", "0", "-", "1", "0", ":", "5", "0", "\\", ")">>,
       <<"S", "-", "3", " ", "\\", "(", "1", "1", ":", "0", "0", "-", "1", "2", ":", "2", "0", "\\", ")">>,
       <<"S", "-", "4", " ", "\\", "(", "1", "2", ":", "3", "0", "-", "1", ":", "5", "0", "\\", ")">>,
       <<"S", "-", "5", " ", "\\", "(", "2", ":", "0", "0", "-", "3", ":", "2", "0", "\\", ")">>,
       <<"S", "-", "6", " ", "\\", "(", "3", ":", "3", "0", "-", "4", ":", "5", "0", "\\", ")">> >>

\* two markers written with AM and PM
TwoSlots ==
    << <<"S", "-", "1", " ", "\\", "(", "8", ":", "0", "0", " ", "A", "M", " ", "-", " ", "9", ":", "2", "0", " ", "A", "M", "\\", ")">>,
       <<"S", "-", "2", "\\", "(", "1", "2", ":", "3", "0", "P", "M", "-", "1", ":", "5", "0", "P", "M", "\\", ")">> >>

\* runs of tokens of a timetable: a semester label with a course, a label,
\* a section code, courses without and with a teacher, weekday markers
TokenBlocks ==
    { <<<<"5", "t", "h", " ", "S", "e", "m", "e", "s", "t", "e", "r">>, <<"O", "S">>, <<"C", "R", "-", "1">>>>,
      <<<<"3", "r", "d", " ", "S", "e", "m", "e", "s", "t", "e", "r">>>>,
      <<<<"A">>>>,
      <<<<"O", "S">>, <<"C", "R", "-", "1">>>>,
      <<<<"D", "B">>, <<"C", "S", " ", "L", "a", "b">>, <<"D", "r", ".", " ", "X">>>>,
      <<<<"M", "o", "n", "d", "a", "y">>>>,
      <<<<"T", "u", "e", "s", "d", "a", "y">>>>,
      SevenCourses, MorningSlots, TwoSlots }

\* a document of one region with one text block that shows the tokens
PdfOf(tokens) ==
    <<StreamRegion(FALSE, FALSE, <<[i \in 1..Len(tokens) |-> ShowString(tokens[i])]>>)>>

\* the semester and the section the user types
TargetInputs ==
    { <<<<"5", "t", "h">>, <<>>>>,
      <<<<"4">>, <<" ", "a">>>>,
      <<<<"4">>, <<"B">>>>,
      <<<<"1", "0">>, <<>>>>,
      <<<<"1", "9">>, <<>>>>,
      <<<<"0">>, <<>>>>,
      <<<<"9">>, <<>>>>,
      <<<<"a", "b", "c">>, <<>>>>,
      <<<<>>, <<>>>> }

CallParseTimetablePdf ==
    \E blocks \in UNION {[1..n -> TokenBlocks] : n \in 0..MaxBlocks}, target \in TargetInputs :
        /\ callIn = Null
        /\ callIn' = [fn |-> "parseTimetablePdf", pdf |-> PdfOf(Flatten(blocks)),
                      semesterInput |-> target[1], sectionInput |-> target[2]]
        /\ callOut' = parseTimetablePdf(callIn'.pdf, target[1], target[2])
        /\ UNCHANGED <<trigIn, trigOut, appVars>>

\* the inner loop of parseTimetablePdf takes one more token
PdfTokenStep ==
    /\ Called("parseTimetablePdf")
    /\ callOut.pc = "scan"
    /\ callOut' = LoopHead(ScanToken(callOut))
    /\ UNCHANGED <<callIn, trigIn, trigOut, appVars>>

NextPdf ==
    \/ CallExtractPdfTokens
    \/ CallParseTimetablePdf
    \/ PdfTokenStep

SpecPdf == InitPdf /\ [][NextPdf]_vars

----------------------------------------------------------------------------
(* scheduleRoutineNotifications on its own: one call, every await a step   *)

\* the items a call is made for: of a canonical day, of an abbreviated day
\* and of no day
ScheduleItems ==
    { [id |-> 1, title |-> <<"G", "y", "m">>, day |-> d, startTime |-> t[1],
       endTime |-> t[2], done |-> FALSE, reminderEnabled |-> 0, reminderIds |-> <<>>] :
          d \in {"Monday", "Sunday", "Mon", NoDay},
          t \in {<<HHMM(8, 0), HHMM(9, 0)>>, <<HHMM(0, 10), HHMM(1, 0)>>,
                 <<HHMM(23, 0), HHMM(23, 59)>>} }

ScheduleLeads == {0, 5, 30}

ScheduleStages == <<"lead", "start", "end">>

\* a call that goes for the lead notification whatever leadMins is
LeadAlways(leadMins) == TRUE

\* if (leadMins > 0)
LeadWanted(leadMins) == leadMins > 0

\* the trigger of the k-th notification
StageTrigger(item, leadMins, k) ==
    CASE k = 1 -> getWeeklyTrigger(item.day, item.startTime, leadMins)
      [] k = 2 -> getWeeklyTrigger(item.day, item.startTime, 0)
      [] k = 3 -> getWeeklyTrigger(item.day, item.endTime, 0)

\* the k-th notification is scheduled: its if holds
StageRuns(item, leadMins, k) ==
    /\ k = 1 => LeadWanted(leadMins)
    /\ StageTrigger(item, leadMins, k) # Null

\* the function runs on from after its k-th notification to its next await,
\* or to its return: ids.length > 0 ? ids : null
RECURSIVE ScheduleFrom(_, _, _)
ScheduleFrom(in, out, k) ==
    IF k > Len(ScheduleStages)
    THEN [out EXCEPT !.pc = "done",
                     !.returned = IF Len(out.ids) > 0 THEN [ids |-> out.ids] ELSE Null]
    ELSE IF StageRuns(in.item, in.leadMins, k) THEN [out EXCEPT !.pc = "await", !.stage = k]
    ELSE ScheduleFrom(in, out, k + 1)

InitSchedule == InitTrigger

ScheduleFrame ==
    UNCHANGED <<trigIn, trigOut, reminderLeadTime, routineVars, lectureVars, opVars, started>>

\* scheduleRoutineNotifications(item, leadMins) up to its first await
CallScheduleRoutineNotifications ==
    \E item \in ScheduleItems, leadMins \in ScheduleLeads :
        /\ callIn = Null
        /\ callIn' = [fn |-> "scheduleRoutineNotifications", item |-> item, leadMins |-> leadMins]
        /\ callOut' = [pc |-> "perm", stage |-> 0, ids |-> <<>>, calls |-> <<>>,
                       hasPerms |-> FALSE, returned |-> Null]
        /\ UNCHANGED <<perm, notifs, nextNid>>
        /\ ScheduleFrame

\* ensureNotificationPermission resolves: if (!hasPerms) return null
SchedulePermission ==
    \E now \in {"granted", "denied"} :
        /\ Called("scheduleRoutineNotifications")
        /\ callOut.pc = "perm"
        /\ perm' = now
        /\ callOut' = IF now = "granted"
                      THEN ScheduleFrom(callIn, [callOut EXCEPT !.hasPerms = TRUE], 1)
                      ELSE [callOut EXCEPT !.pc = "done"]
        /\ UNCHANGED <<callIn, notifs, nextNid>>
        /\ ScheduleFrame

\* the Notifications.scheduleNotificationAsync awaited resolves with an id
ScheduleResolves ==
    LET k == callOut.stage
        trigger == StageTrigger(callIn.item, callIn.leadMins, k)
        id == <<"n", nextNid>>
        out == [callOut EXCEPT !.ids = Append(@, id),
                               !.calls = Append(@, [stage |-> ScheduleStages[k],
                                                    trigger |-> trigger, id |-> id])]
    IN  /\ Called("scheduleRoutineNotifications")
        /\ callOut.pc = "await"
        /\ notifs' = (id :> trigger) @@ notifs
        /\ nextNid' = nextNid + 1
        /\ callOut' = ScheduleFrom(callIn, out, k + 1)
        /\ UNCHANGED <<callIn, perm>>
        /\ ScheduleFrame

\* the Notifications.scheduleNotificationAsync awaited rejects: the function
\* has no catch
ScheduleRejects ==
    /\ Called("scheduleRoutineNotifications")
    /\ callOut.pc = "await"
    /\ callOut' = [callOut EXCEPT !.pc = "threw"]
    /\ UNCHANGED <<callIn, perm, notifs, nextNid>>
    /\ ScheduleFrame

NextSchedule ==
    \/ CallScheduleRoutineNotifications
    \/ SchedulePermission
    \/ ScheduleResolves
    \/ ScheduleRejects

SpecSchedule == InitSchedule /\ [][NextSchedule]_vars

----------------------------------------------------------------------------
(* The lecture store on its own, every await of insertLecture,             *)
(* insertLectures and deleteLecture a step boundary                        *)

MaxStoreOps == 4

\* what the callers insert: one lecture, or the two of an import
StoreInserts ==
    { <<FormLecture(0, MondayForm, 0)>>,
      <<FormLecture(0, MondayForm, 0), FormLecture(0, SundayForm, 0)>> }

InitStore ==
    /\ Init
    /\ lectures = <<>>
    /\ lectureCounter = 0

StoreFrame == UNCHANGED <<trigVars, serviceVars, reminderLeadTime, routineVars, lectures>>

StoreCanStart(o) == Free(o) /\ started < MaxStoreOps /\ \A q \in 1..(o - 1) : ~Free(q)

\* insertLecture(lecture) / insertLectures(lectures) is called: loadLectures
\* is issued
CallInsert(o) ==
    \E new \in StoreInserts :
        /\ StoreCanStart(o)
        /\ started' = started + 1
        /\ Goes(o, [IdleOp EXCEPT !.kind = IF Len(new) = 1 THEN "insertLecture"
                                           ELSE "insertLectures",
                                  !.pc = "load", !.queue = new])
        /\ StoreFrame
        /\ UNCHANGED <<lectureDb, lectureCounter>>

\* deleteLecture(id) is called for a stored lecture: loadLectures is issued
CallDelete(o) ==
    \E k \in 1..Len(lectureDb) :
        /\ StoreCanStart(o)
        /\ started' = started + 1
        /\ Goes(o, [IdleOp EXCEPT !.kind = "deleteLecture", !.pc = "load",
                                  !.target = lectureDb[k].id])
        /\ StoreFrame
        /\ UNCHANGED <<lectureDb, lectureCounter>>

\* loadLectures resolves with the stored list
LoadLectures(o) ==
    LET op == ops[o]
    IN  /\ op.pc = "load"
        /\ Goes(o, [op EXCEPT !.snap = lectureDb,
                              !.pc = IF op.kind = "deleteLecture" \/ Len(op.queue) = 0
                                     THEN "save" ELSE "getItem"])
        /\ StoreFrame
        /\ UNCHANGED <<lectureDb, lectureCounter, started>>

\* getNextId: AsyncStorage.getItem(COUNTER_KEY) resolves, next is computed and
\* setItem is issued
CounterGetItem(o) ==
    LET op == ops[o]
    IN  /\ op.pc = "getItem"
        /\ Goes(o, [op EXCEPT !.target = lectureCounter + 1, !.pc = "setItem"])
        /\ StoreFrame
        /\ UNCHANGED <<lectureDb, lectureCounter, started>>

\* getNextId: AsyncStorage.setItem(COUNTER_KEY, next) resolves and the caller
\* pushes the lecture with id next
CounterSetItem(o) ==
    LET op == ops[o]
    IN  /\ op.pc = "setItem"
        /\ lectureCounter' = op.target
        /\ Goes(o, [op EXCEPT !.snap = Append(@, [op.queue[1] EXCEPT !.id = op.target]),
                              !.queue = Tail(@),
                              !.pc = IF Len(op.queue) = 1 THEN "save" ELSE "getItem"])
        /\ StoreFrame
        /\ UNCHANGED <<lectureDb, started>>

\* saveLectures of the list the call holds
SaveLectures(o) ==
    LET op == ops[o]
    IN  /\ op.pc = "save"
        /\ lectureDb' = IF op.kind = "deleteLecture" THEN deleteLecture(op.snap, op.target)
                        ELSE op.snap
        /\ Return(o, op, NoAlert)
        /\ StoreFrame
        /\ UNCHANGED <<lectureCounter, started>>

NextStore ==
    \E o \in Slots :
        \/ CallInsert(o)
        \/ CallDelete(o)
        \/ LoadLectures(o)
        \/ CounterGetItem(o)
        \/ CounterSetItem(o)
        \/ SaveLectures(o)

SpecStore == InitStore /\ [][NextStore]_vars

----------------------------------------------------------------------------
(* The claims *)

LectureKinds ==
    {"addLecture", "editLecture", "toggleLectureReminder", "setReminderLeadTime",
     "removeLecture", "importJson"}

Quiescent == \A o \in Slots : ops[o].pc = "idle"

\* the identifiers a handler knows of item x when it starts
KnownIds(op, x) ==
    IF op.kind \in LectureKinds THEN {LectureId(x)}
    ELSE IF x = op.target THEN op.known ELSE {}

LogOrdered(op) ==
    \A k \in 1..Len(op.log) :
        op.log[k].call = "schedule" =>
            \A id \in KnownIds(op, op.log[k].item) :
                \E j \in 1..(k - 1) : op.log[j].call = "cancel" /\ op.log[j].id = id

\* C2: whenever a routine item or lecture that already has scheduled reminder
\* identifiers is scheduled again, every identifier the handler knows of the
\* item has a cancel call in the handler's call log before the first schedule
\* call for the item.
C2_CancelBeforeSchedule ==
    /\ \A o \in DOMAIN ops : LogOrdered(ops[o])
    /\ LogOrdered(lastDone)

RoutineNotifs == {n \in DOMAIN notifs : n[1] = "n"}

Referrers(n) == {k \in 1..Len(routineStore) : n \in Range(routineStore[k].reminderIds)}

\* C3: with no handler in flight, every notification of the routine screen
\* that is active in the service is referenced by the reminderIds of exactly
\* one stored routine item.
C3_ExactlyOneReferrer ==
    Quiescent => \A n \in RoutineNotifs : Cardinality(Referrers(n)) = 1

\* the triggers a reminder of the lecture can have been scheduled with
TriggersOf(lecture) == {lectureTrigger(lecture, l) : l \in LEAD_TIMES} \ {Null}

\* C4: when editLecture returns for a lecture whose day or start time changed,
\* the service holds no notification of the lecture for its previous day and
\* time.
C4_NoStaleAfterEdit ==
    (/\ lastDone.kind = "editLecture"
     /\ lastDone.alert = NoAlert
     /\ Len(lastDone.snap) = 1
     /\ \/ lastDone.snap[1].day # lastDone.item.day
        \/ lastDone.snap[1].startTime # lastDone.item.startTime)
    => lastDone.active \notin TriggersOf(lastDone.snap[1])

\* C5: when scheduleNotification ran with permission granted for a lecture
\* with a canonical day whose start time minus lead time is before midnight,
\* the handler returns with the lecture's reminder scheduled on the previous
\* weekday at the wrapped time.
C5_WrapsToPreviousDay ==
    (/\ lastDone.kind \in LectureKinds
     /\ lastDone.item.id \in lastDone.granted
     /\ lastDone.item.day \in CanonicalDays
     /\ timeToMinutes(lastDone.item.startTime) - lastDone.lead < 0)
    => lastDone.active
         = getWeeklyTrigger(lastDone.item.day, lastDone.item.startTime, lastDone.lead)

\* C6: when a handler returns that was refused permission for an item, the
\* item is stored with reminderEnabled = 0, routine item or lecture.
C6_DeniedMeansDisabled ==
    /\ lastDone.kind \in {"saveAdd", "saveEdit", "toggleReminder", "import"} =>
          \A k \in 1..Len(routineStore) :
              routineStore[k].id \in lastDone.refused => routineStore[k].reminderEnabled = 0
    /\ lastDone.kind \in {"toggleLectureReminder", "addLecture", "editLecture"} =>
          \A k \in 1..Len(lectureDb) :
              lectureDb[k].id \in lastDone.refused => lectureDb[k].reminderEnabled = 0

\* some row of the input raises a row error
HasRowError(rows) ==
    \E i \in 0..(Len(rows) - 1) :
        /\ ~RowIsSkipped(RowFields(rows[i + 1]))
        /\ RowError(RowFields(rows[i + 1]), i) # Null

\* C7: an import whose input has a row that raises a row error never gets to
\* importParsedItems (no handler goes on as an import of such rows): the
\* handler returns at once with the error, and stored items, the list and the
\* active notifications are unchanged, whatever valid rows precede the bad one.
C7_ImportAllOrNothing ==
    [][ /\ \A o \in DOMAIN ops :
              (ops[o].kind # "import" /\ ops'[o].kind = "import") => ~HasRowError(ops'[o].input)
        /\ (/\ started' = started + 1
            /\ ops' = ops
            /\ lastDone'.kind = "import"
            /\ HasRowError(lastDone'.input))
           => /\ lastDone'.alert.title = "Import failed"
              /\ UNCHANGED <<items, routineStore, notifs>> ]_vars

\* an import failed on its second row, after a valid row with a reminder,
\* with an item stored and its notifications active
C7_Witness ==
    /\ lastDone.kind = "import"
    /\ lastDone.alert.title = "Import failed"
    /\ lastDone.input = <<GoodRow(<<"y", "e", "s">>), OnlyDayRow>>
    /\ lastDone.alert.error.row = 3
    /\ Len(routineStore) = 1
    /\ RoutineNotifs # {}

\* the element lacks a field or its day is not a canonical name
Offending(e) ==
    \/ e = Null
    \/ \E f \in JsonFields : f \notin DOMAIN e
    \/ e.day \notin CanonicalDays

\* C8: when the array has an element that lacks a field or has a day that is
\* not canonical, handleImportJson fails with a message carrying the 1-based
\* index of the first such element, and importLectures is not called.
C8_JsonImportFails ==
    (/\ lastDone.kind = "importJson"
     /\ \E i \in 1..Len(lastDone.input) : Offending(lastDone.input[i]))
    => /\ lastDone.alert.title = "Import Failed"
       /\ ~lastDone.want
       /\ "item" \in DOMAIN lastDone.alert.error
       /\ lastDone.alert.error.item
            = CHOOSE i \in 1..Len(lastDone.input) :
                /\ Offending(lastDone.input[i])
                /\ \A j \in 1..(i - 1) : ~Offending(lastDone.input[j])

\* the cells of the row as text: title, day, start, end
RawCells(row) ==
    << Trim(StringOf(Coalesce(RowGet(row, HTitle),
                       Coalesce(RowGet(row, HActivity), RowGet(row, HTask))))),
       Trim(StringOf(Coalesce(RowGet(row, HDay), RowGet(row, HWeekday)))),
       Trim(StringOf(Coalesce(RowGet(row, HStartTime), RowGet(row, HStart)))),
       Trim(StringOf(Coalesce(RowGet(row, HEndTime), RowGet(row, HEnd)))) >>

Populated(row) == {c \in 1..4 : Len(RawCells(row)[c]) > 0}

\* C9: rows whose four cells are all empty are skipped; when the first row
\* that is not empty has at least one but not all four cells populated, the
\* import fails with an error naming that row.
C9_PartialRowAborts ==
    lastDone.kind = "import" =>
        \A i \in 1..Len(lastDone.input) :
            (/\ \A j \in 1..(i - 1) : Populated(lastDone.input[j]) = {}
             /\ Populated(lastDone.input[i]) \notin {{}, 1..4})
            => /\ lastDone.alert.title = "Import failed"
               /\ lastDone.alert.error.row = i + 1

\* the class of problem the row has: a cell is absent, a time cell that is
\* not empty cannot be parsed, the end is not after the start
RowClass(row) ==
    LET f == RowFields(row)
    IN  IF Populated(row) # 1..4 THEN "missing required fields"
        ELSE IF Len(f.startTime) = 0 \/ Len(f.endTime) = 0 THEN "invalid time"
        ELSE IF f.day # NoDay /\ timeToMinutes(f.endTime) <= timeToMinutes(f.startTime)
        THEN "endTime earlier than startTime"
        ELSE "other"

\* C10: the error of a failed import names the class of problem of the row
\* it names.
C10_ErrorClass ==
    (lastDone.kind = "import" /\ lastDone.alert.title = "Import failed") =>
        LET row == lastDone.input[lastDone.alert.error.row - 1]
        IN  RowClass(row) # "other" => lastDone.alert.error.kind = RowClass(row)


\* the hour and the minute a clock text names, the minute 0 when it has none
ClockOf(raw) ==
    LET body == IF HasMeridiem(raw) THEN Trim(SubSeq(raw, 1, Len(raw) - 2)) ELSE raw
        parts == SplitColon(body)
    IN  [clock |-> ClockPieces(body),
         hour |-> IF ClockPieces(body) THEN DecVal(parts[1]) ELSE 0,
         minute |-> IF ClockPieces(body) /\ Len(parts) >= 2 THEN DecVal(parts[2]) ELSE 0]

OutOfRange(raw) == ClockOf(raw).clock /\ (ClockOf(raw).hour > 23 \/ ClockOf(raw).minute > 59)

\* C11: a time text of any shape (HH:MM, H:MM:SS, 12-hour with AM or PM)
\* whose hour is outside 0..23 or whose minute is outside 0..59 is not
\* accepted: parseSpreadsheetTime returns the empty string for it.
C11_OutOfRangeRejected ==
    (Called("parseSpreadsheetTime") /\ callIn.value.t = "str"
        /\ OutOfRange(Trim(callIn.value.s)))
    => callOut = <<>>


\* C12: parseSpreadsheetTime is total: for every value (null, a Date, a finite
\* or non-finite number, any text) the call returns, and what it returns is
\* the empty string or a canonical HH:MM.
C12_TimeIsTotal ==
    Called("parseSpreadsheetTime") => (callOut = <<>> \/ validTime(callOut))


\* the 24-hour hour of a 12-hour time: 12 AM is 0, 12 PM is 12, other PM hours + 12
Hour24(c) == IF c.pm THEN (IF c.h = 12 THEN 12 ELSE c.h + 12) ELSE (IF c.h = 12 THEN 0 ELSE c.h)

Canonical(c) == HHMM(Hour24(c), c.m)

MinuteOfDay(c) == Hour24(c) * 60 + c.m

\* C13: parseImportedRows turns a well-formed row with fuzzy headers, a
\* weekday in any case or abbreviation and 12-hour times (with or without
\* minutes) into the canonical item: the full day name and zero-padded
\* 24-hour times, 12 AM as 00, 12 PM as 12, other PM hours plus 12.
C13_RowIsCanonical ==
    (Called("parseImportedRows") /\ MinuteOfDay(callIn.end) > MinuteOfDay(callIn.start))
    => callOut = [ok |-> TRUE,
                  items |-> <<[title |-> <<"G", "y", "m">>, day |-> callIn.day,
                               startTime |-> Canonical(callIn.start),
                               endTime |-> Canonical(callIn.end),
                               done |-> FALSE, reminderEnabled |-> 0]>>]

\* the row {title: Gym, day: Mon, start: 7am, end: 8:00am} came out as
\* Monday 07:00 - 08:00
C13_Witness ==
    /\ Called("parseImportedRows")
    /\ callIn.rows[1][3][2] = Cell(<<"7", "a", "m">>)
    /\ callIn.rows[1][4][2] = Cell(<<"8", ":", "0", "0", "a", "m">>)
    /\ callIn.rows[1][2][2] = Cell(<<"M", "o", "n">>)
    /\ callOut.ok /\ Len(callOut.items) = 1
    /\ callOut.items[1].day = "Monday"
    /\ callOut.items[1].startTime = HHMM(7, 0)
    /\ callOut.items[1].endTime = HHMM(8, 0)


\* C14: toHHMM and timeToMinutes are inverse to each other modulo one day:
\* toHHMM(timeToMinutes(s)) = s for every valid zero-padded s, and
\* timeToMinutes(toHHMM(m)) = ((m mod 1440) + 1440) mod 1440 for every
\* integer m; toHHMM(-30) is 23:30.
C14_InverseModuloDay ==
    /\ Called("timeToMinutes") => callOut.text = callIn.t
    /\ Called("toHHMM") =>
            /\ callOut.minutes = callIn.totalMinutes % 1440
            /\ validTime(callOut.text)
            /\ callIn.totalMinutes = 0 - 30 => callOut.text = HHMM(23, 30)

\* toHHMM of thirty minutes before midnight of the day before
C14_Witness ==
    Called("toHHMM") /\ callIn.totalMinutes = 0 - 30 /\ callOut.minutes = 1410


\* the pieces of a document that are no region that fails to inflate
Inflating(pdf) ==
    LET Sound(piece) == ~InflateFails(piece)
    IN  SelectSeq(pdf, Sound)

HasRegion(pdf) == \E i \in 1..Len(pdf) : pdf[i].kind = "stream"

ParsingTimetable == callIn # Null /\ callIn.fn = "parseTimetablePdf"

\* C15: parseTimetablePdf emits an item only while the current semester is
\* the target semester and the target section is empty or the current
\* section; when the target semester never becomes current the result is the
\* empty list, and no error.
C15_EmitsOnlyTarget ==
    [][/\ (ParsingTimetable /\ callOut'.lectures # callOut.lectures)
            => /\ callOut.targetSemester = callOut.currentSemester
               /\ callOut.targetSection \in {<<>>, callOut.currentSection}
       /\ (callIn' # Null /\ callIn'.fn = "parseTimetablePdf" /\ callOut'.pc = "done"
              /\ callOut'.targetSemester # NoSemester
              /\ callOut'.targetSemester \notin callOut'.became)
            => (callOut'.lectures = <<>> /\ ~callOut'.threw)]_vars

\* section A of semester 4 was asked for and a course of it came out
C15_Witness ==
    /\ ParsingTimetable
    /\ callOut.pc = "done"
    /\ callOut.targetSection = <<"A">>
    /\ callOut.targetSemester = 4
    /\ Len(callOut.lectures) = 1
    /\ callOut.lectures[1].subject = <<"O", "S">>

\* C16: the list parseTimetablePdf builds never holds two items with the same
\* day, start, end, subject, room and teacher; the first of them stays where
\* it was put.
C16_NoDuplicateItems ==
    [][(callIn' # Null /\ callIn'.fn = "parseTimetablePdf") =>
          /\ \A i, j \in 1..Len(callOut'.lectures) :
                i # j => [f \in {"day", "startTime", "endTime", "subject", "room", "teacher"}
                            |-> callOut'.lectures[i][f]]
                         # [f \in {"day", "startTime", "endTime", "subject", "room", "teacher"}
                            |-> callOut'.lectures[j][f]]
          /\ ParsingTimetable =>
                /\ Len(callOut'.lectures) >= Len(callOut.lectures)
                /\ SubSeq(callOut'.lectures, 1, Len(callOut.lectures)) = callOut.lectures]_vars

\* the same course stood twice under the same semester label on one day and
\* came out once
C16_Witness ==
    /\ ParsingTimetable
    /\ callIn.pdf = PdfOf(<<<<"5", "t", "h", " ", "S", "e", "m", "e", "s", "t", "e", "r">>, <<"O", "S">>, <<"C", "R", "-", "1">>>> \o <<<<"5", "t", "h", " ", "S", "e", "m", "e", "s", "t", "e", "r">>, <<"O", "S">>, <<"C", "R", "-", "1">>>> \o <<DAYS[1]>>)
    /\ callIn.semesterInput = <<"5", "t", "h">>
    /\ callOut.pc = "done"
    /\ Len(callOut.lectures) = 1

\* the number a semester input names: its first run of digits, or -1
NamedNumber(value) ==
    LET digits == {i \in 1..Len(value) : IsDigit(value[i])}
        first == CHOOSE i \in digits : \A j \in digits : i <= j
    IN  IF digits = {} THEN 0 - 1
        ELSE DecVal(SubSeq(value, first, SkipDigits(value, first) - 1))

\* C17: parseTimetablePdf rejects every semester input that does not denote
\* a number from 1 to 8 (no number, 0, 9, or several digits such as 10 or
\* 19): it throws, and does so before any token is extracted or processed.
C17_BadSemesterRejected ==
    (ParsingTimetable /\ NamedNumber(callIn.semesterInput) \notin 1..8)
    => (callOut.threw /\ ~callOut.extracted /\ callOut.lectures = <<>>)

\* a schedule call of the handler was rejected
Rejected(op) == \E k \in 1..Len(op.log) : op.log[k].call = "rejected"

\* the titles of the rows an import in flight has parsed: those created, the
\* one waiting for the service and those still to come
ParsedTitles(op) ==
    {op.created[k].title : k \in 1..Len(op.created)}
        \cup {op.item.title} \cup {op.rows[k].title : k \in 1..Len(op.rows)}

\* C19: when a batch import returns after one of its schedule calls was
\* rejected, the batch has completed ("Imported") and every parsed row is
\* persisted, none of them holding the identifier of a call that failed.
C19_BatchSurvivesRejection ==
    [][ \A o \in DOMAIN ops :
          (/\ ops[o].kind = "import"
           /\ ops'[o].pc = "idle"
           /\ Rejected(lastDone'))
          => /\ lastDone'.alert.title = "Imported"
             /\ \A t \in ParsedTitles(ops[o]) :
                   \E k \in 1..Len(routineStore') : routineStore'[k].title = t ]_vars

\* the call log holds a cancel call for the identifier
CancelLogged(log, id) == \E k \in 1..Len(log) : log[k].call = "cancel" /\ log[k].id = id

\* the reminder identifiers of the stored routine item x
StoredIds(x) ==
    UNION {Range(routineStore[k].reminderIds) :
              k \in {j \in 1..Len(routineStore) : routineStore[j].id = x}}

\* a delete handler returns in this step
DeleteReturns(o, kind) == ops[o].kind = kind /\ ops[o].pc # "idle" /\ ops'[o].pc = "idle"

\* C20: when deleteItem or removeLecture returns, a cancel call was issued for
\* every reminder identifier of the item before it was removed, the item is
\* absent from storage, and none of its notifications (those of the item the
\* handler held, and those the stored item held) is active.
C20_DeleteCancelsThenRemoves ==
    [][ \A o \in DOMAIN ops :
          /\ DeleteReturns(o, "deleteItem") =>
                /\ \A id \in Range(getRoutineNotificationIds(ops[o].item)) :
                       CancelLogged(ops[o].log, id)
                /\ \A k \in 1..Len(routineStore') : routineStore'[k].id # ops[o].target
                /\ \A id \in Range(getRoutineNotificationIds(ops[o].item))
                                \cup StoredIds(ops[o].target) : id \notin DOMAIN notifs'
          /\ DeleteReturns(o, "removeLecture") =>
                /\ CancelLogged(ops[o].log, LectureId(ops[o].target))
                /\ \A k \in 1..Len(lectureDb') : lectureDb'[k].id # ops[o].target
                /\ LectureId(ops[o].target) \notin DOMAIN notifs' ]_vars

\* the handler in slot o returns in this step
Returns(o) == ops[o].pc # "idle" /\ ops'[o].pc = "idle"

\* the stored routine item x has the fields of item
StoredAs(x, item) ==
    \E k \in 1..Len(routineStore') :
        /\ routineStore'[k].id = x
        /\ routineStore'[k].title = item.title
        /\ routineStore'[k].day = item.day
        /\ routineStore'[k].startTime = item.startTime
        /\ routineStore'[k].endTime = item.endTime

\* C21: a handler one of whose cancel calls was rejected completes as it does
\* when they all succeed: saveItem (edit) stores the edited item, toggleReminder
\* (off) stores the item with the reminder off, deleteItem stores the list
\* without the item, handleDeleteAllRoutine stores the empty list,
\* removeLecture deletes the lecture, and editLecture and
\* toggleLectureReminder return without an alert.
C21_CancelFailureSwallowed ==
    [][ \A o \in DOMAIN ops :
          (Returns(o) /\ lastDone'.failed # {}) =>
             /\ lastDone'.alert \in {NoAlert, [title |-> "Reminder disabled"]}
             /\ (ops[o].kind = "saveEdit" /\ ~Rejected(lastDone')) =>
                    StoredAs(ops[o].target, ops[o].item)
             /\ (ops[o].kind = "toggleReminder" /\ ~ops[o].want) =>
                    routineStore' = sortRoutine(MapItem(ops[o].snap, ops[o].target,
                                        [reminderEnabled |-> 0, reminderIds |-> <<>>]))
             /\ ops[o].kind = "deleteItem" =>
                    routineStore' = sortRoutine(FilterOut(ops[o].snap, ops[o].target))
             /\ ops[o].kind = "deleteAllRoutine" => routineStore' = <<>>
             /\ ops[o].kind = "removeLecture" =>
                    \A k \in 1..Len(lectureDb') : lectureDb'[k].id # ops[o].target ]_vars

\* deleteItem has returned after the cancel call of one of the item's three
\* notifications was rejected: the item is gone, the notification is not
C21_Witness ==
    /\ lastDone.kind = "deleteItem"
    /\ lastDone.failed # {}
    /\ lastDone.failed \subseteq DOMAIN notifs
    /\ routineStore = <<>>

\* C22: every stored lecture has canonical zero-padded 24-hour start and end
\* times, the end strictly later than the start.
C22_StoredTimesCanonical ==
    \A k \in 1..Len(lectureDb) :
        /\ validTime(lectureDb[k].startTime)
        /\ validTime(lectureDb[k].endTime)
        /\ timeToMinutes(lectureDb[k].endTime) > timeToMinutes(lectureDb[k].startTime)

\* C23: no two lectures of the store have the same id, whatever the
\* interleaving of insertLecture, insertLectures and deleteLecture calls at
\* their awaits.
C23_UniqueLectureIds ==
    \A j, k \in 1..Len(lectureDb) : lectureDb[j].id = lectureDb[k].id => j = k

\* the positions of the weekday markers in the tokens
MarkerPositions(tokens) == {p \in 1..Len(tokens) : tokens[p] \in Range(DAYS)}

\* the tokens that follow position p up to the next weekday marker
TokensAfter(tokens, p) ==
    LET later == {q \in MarkerPositions(tokens) : q > p}
        stop == IF later = {} THEN Len(tokens) + 1
                ELSE CHOOSE q \in later : \A r \in later : q <= r
    IN  SubSeq(tokens, p + 1, stop - 1)

\* C24: the segments of parseTimetablePdf are, marker by marker, the day of
\* the marker with the tokens that follow it up to the next marker, and
\* every item comes from tokens that follow a marker of its day: tokens
\* before the first marker produce nothing.
C24_SegmentFollowsMarker ==
    (ParsingTimetable /\ ~callOut.threw) =>
        LET tokens == extractPdfTokens(callIn.pdf).tokens
        IN  /\ Len(callOut.segments) = Cardinality(MarkerPositions(tokens))
            /\ \A p \in MarkerPositions(tokens) :
                  LET k == Cardinality({q \in MarkerPositions(tokens) : q <= p})
                  IN  callOut.segments[k] = [day |-> tokens[p], tokens |-> TokensAfter(tokens, p)]
            /\ \A n \in 1..Len(callOut.lectures) :
                  \E p \in MarkerPositions(tokens) :
                      /\ tokens[p] = callOut.lectures[n].day
                      /\ callOut.lectures[n].subject \in Range(TokensAfter(tokens, p))

\* the token is a semester label or a section code
IsSlotReset(token) ==
    \/ parseSemesterNumber(token) # NoSemester /\ IsSemesterLabel(token)
    \/ token \in SectionTokens

\* the token and the one after it are a subject with its room
IsCoursePair(token, room) ==
    /\ ~IsSlotReset(token)
    /\ Len(room) > 0
    /\ token \notin controlTokens /\ room \notin controlTokens
    /\ IsRoom(room)

C26_EmittedTimesCanonical ==
    ParsingTimetable =>
        \A n \in 1..Len(callOut.lectures) :
            /\ validTime(callOut.lectures[n].startTime)
            /\ validTime(callOut.lectures[n].endTime)
            /\ timeToMinutes(callOut.lectures[n].endTime)
                 > timeToMinutes(callOut.lectures[n].startTime)

\* the positions of the tokens that hold a slot marker parseSlotRange reads
SlotPositions(tokens) == {p \in 1..Len(tokens) : parseSlotRange(tokens[p]) # Null}

\* C29: with six or more slot markers among the tokens the slot table is the
\* first six of them in the order met; with fewer (five to none) it is the
\* default table, 08:00-09:20 through 15:30-16:50, and no marker is used.
C29_SlotTable ==
    (ParsingTimetable /\ ~callOut.threw /\ callOut.slotTimes # <<>>) =>
        \A tokens \in {extractPdfTokens(callIn.pdf).tokens} :
        \A marked \in {SlotPositions(tokens)} :
            IF Cardinality(marked) >= 6
            THEN /\ Len(callOut.slotTimes) = 6
                 /\ \A p \in marked :
                       LET k == Cardinality({q \in marked : q <= p})
                       IN  k <= 6 => callOut.slotTimes[k] = parseSlotRange(tokens[p])
            ELSE /\ callOut.slotTimes = defaultSlots
                 /\ Len(defaultSlots) = 6
                 /\ defaultSlots[1] = [start |-> HHMM(8, 0), end |-> HHMM(9, 20)]
                 /\ defaultSlots[6] = [start |-> HHMM(15, 30), end |-> HHMM(16, 50)]

\* eight markers stood in the document: the table is the two written with AM
\* and PM and the first four of the slot row
C29_Witness ==
    /\ ParsingTimetable
    /\ callIn.pdf = PdfOf(TwoSlots \o MorningSlots \o <<DAYS[1]>>)
    /\ Len(callOut.slotTimes) = 6
    /\ callOut.slotTimes[2] = [start |-> HHMM(12, 30), end |-> HHMM(13, 50)]
    /\ callOut.slotTimes[3] = [start |-> HHMM(8, 0), end |-> HHMM(9, 20)]
    /\ callOut.slotTimes[6] = [start |-> HHMM(0, 30), end |-> HHMM(1, 50)]

\* the text of a show operation with the strings of an array in the order
\* they are written
WrittenText(show) ==
    IF show.op = "TJ"
    THEN normalizeTextToken(
             Flatten([i \in 1..Len(show.parts) |->
                 IF show.parts[i].kind = "literal"
                 THEN decodePdfLiteralString(show.parts[i].raw)
                 ELSE decodePdfHexString(show.parts[i].raw)]))
    ELSE normalizeTextToken(decodePdfLiteralString(show.raw))

\* the show operations of the pieces the extraction reads, in the order of
\* the bytes of the document
RECURSIVE WrittenShows(_)
WrittenShows(pdf) ==
    IF Len(pdf) = 0 THEN <<>>
    ELSE (IF PieceTokens(Head(pdf)) = <<>> THEN <<>> ELSE Flatten(Head(pdf).blocks))
             \o WrittenShows(Tail(pdf))

\* C27: extractPdfTokens returns the tokens in the order of the document: the
\* text of a show operation that stands earlier in the bytes comes earlier,
\* whether it is an array (TJ) or a single string (Tj), and the strings of an
\* array, literal or hex, are joined in the order they are written.
C27_TokensInDocumentOrder ==
    Called("extractPdfTokens") =>
        LET NonEmpty(t) == Len(t) > 0
            shows == WrittenShows(callIn.pdf)
        IN  callOut.tokens = SelectSeq([i \in 1..Len(shows) |-> WrittenText(shows[i])], NonEmpty)

\* C28: a call of scheduleRoutineNotifications that found the permission
\* granted and returned has, for an item of a canonical day, scheduled the
\* lead, the start and the end notification in this order (start and end
\* alone when leadMins is 0), each with its trigger, and returned their ids
\* in this order; for an item of any other day it has scheduled nothing and
\* returned null.
C28_ScheduleOrder ==
    (Called("scheduleRoutineNotifications") /\ callOut.pc = "done" /\ callOut.hasPerms) =>
        LET item == callIn.item
            calls == callOut.calls
            wanted == IF callIn.leadMins > 0 THEN <<"lead", "start", "end">>
                      ELSE <<"start", "end">>
            Trigger(stage) ==
                CASE stage = "lead" -> getWeeklyTrigger(item.day, item.startTime, callIn.leadMins)
                  [] stage = "start" -> getWeeklyTrigger(item.day, item.startTime, 0)
                  [] stage = "end" -> getWeeklyTrigger(item.day, item.endTime, 0)
        IN  IF getDayNumber(item.day) >= 0
            THEN /\ [i \in 1..Len(calls) |-> calls[i].stage] = wanted
                 /\ \A i \in 1..Len(calls) :
                       /\ calls[i].trigger = Trigger(wanted[i])
                       /\ notifs[calls[i].id] = calls[i].trigger
                 /\ callOut.returned = [ids |-> [i \in 1..Len(wanted) |-> calls[i].id]]
            ELSE /\ calls = <<>>
                 /\ notifs = <<>>
                 /\ callOut.returned = Null

\* a call with leadMins 0 for an item of Monday returned two ids
C28_Witness ==
    /\ Called("scheduleRoutineNotifications")
    /\ callOut.pc = "done"
    /\ callIn.leadMins = 0
    /\ callIn.item.day = "Monday"
    /\ callOut.returned = [ids |-> <<<<"n", 1>>, <<"n", 2>>>>]

\* C30: every write of the routine list by a handler of the routine screen is
\* derived from the list persisted last: whatever the stored list held before
\* the write, apart from the item the handler is about, it holds after it, so
\* no handler writes back a snapshot taken before another one persisted.
C30_WritesFromLatest ==
    [][(routineStore' # routineStore /\ lastDone'.kind # "deleteAllRoutine") =>
          \A i \in 1..Len(routineStore) :
              \/ routineStore[i].id = lastDone'.target
              \/ \E j \in 1..Len(routineStore') : routineStore'[j] = routineStore[i]]_vars

====
